---- MODULE Spec2Model ----
(***************************************************************************)
(* A model of the arith_lang compiler (jaehwang/arith_lang): the driver    *)
(* of src/main.cpp, the type and mutability checker of src/type_check.cpp  *)
(* and the scope and slot handling of the lowering in src/codegen.cpp.     *)
(*                                                                         *)
(* A program is the statement list the parser hands on (src/parser.cpp),   *)
(* flattened in traversal order: the statements of an if or a while body   *)
(* follow their "if" / "while" item and are closed by "else" / "endif" /   *)
(* "endwhile" items, which stand for the braces of the blocks.             *)
(***************************************************************************)
EXTENDS Integers, Sequences, FiniteSets, TLC

\* Bounds of the model.
MaxStmts == 4
MaxDepth == 1

Names == {"x"}

----------------------------------------------------------------------------
(* Source locations (src/include/lexer.h) and errors (src/include/parser.h) *)

SourceLocation(f, l, c) == [file |-> f, line |-> l, column |-> c]

\* SourceLocation{}: the default member initialisers.
DefaultLoc == SourceLocation("", 1, 1)

\* An exception in flight. ParseError derives from std::runtime_error and adds
\* loc; what is the message, one element per "\n"-separated line.
ParseError(lines, where) == [kind |-> "ParseError", what |-> lines, loc |-> where]
RuntimeError(line) == [kind |-> "runtime_error", what |-> <<line>>, loc |-> DefaultLoc]
NoError == [kind |-> "none", what |-> <<>>, loc |-> DefaultLoc]

LocText(l) == l.file \o ":" \o ToString(l.line) \o ":" \o ToString(l.column)

----------------------------------------------------------------------------
(* AST nodes (src/include/ast.h)                                            *)

NumberExprAST(v, l) == [k |-> "num", val |-> v, loc |-> l]
StringLiteralAST(s, l) == [k |-> "str", value |-> s, loc |-> l]
VariableExprAST(n, l) == [k |-> "var", name |-> n, loc |-> l]
UnaryExprAST(o, e, l) == [k |-> "un", op |-> o, operand |-> e, loc |-> l]
BinaryExprAST(o, a, b, l) == [k |-> "bin", op |-> o, lhs |-> a, rhs |-> b, loc |-> l]
AssignmentExprAST(n, e, m, l) ==
    [k |-> "asg", name |-> n, value |-> e, is_mut |-> m, loc |-> l]
PrintStmtAST(f, as, l) == [k |-> "print", fmt |-> f, args |-> as, loc |-> l]
\* The flattened statement forms that carry a body.
IfStmtAST(c, l) == [k |-> "if", cond |-> c, loc |-> l]
WhileStmtAST(c, l) == [k |-> "while", cond |-> c, loc |-> l]
ElseItem == [k |-> "else"]
EndIfItem == [k |-> "endif"]
EndWhileItem == [k |-> "endwhile"]

ExprKinds == {"num", "str", "var", "un", "bin", "asg"}

----------------------------------------------------------------------------
(* TypeEnv (src/src/type_check.cpp): a stack of maps name -> SymbolInfo     *)

EmptyMap == [n \in {} |-> n]
MapPut(m, n, v) == [q \in (DOMAIN m) \cup {n} |-> IF q = n THEN v ELSE m[q]]

SymbolInfo(m, l, t) == [is_mutable |-> m, declLoc |-> l, type |-> t]

\* Index of the innermost scope binding name, 0 when none does.
TcLookupIndex(scopes, name) ==
    LET hits == {i \in 1..Len(scopes) : name \in DOMAIN scopes[i]}
    IN  IF hits = {} THEN 0 ELSE CHOOSE i \in hits : \A j \in hits : j <= i

TcHasCurrent(scopes, name) ==
    Len(scopes) > 0 /\ name \in DOMAIN scopes[Len(scopes)]

TcEnterScope(scopes) == Append(scopes, EmptyMap)

TcExitScope(scopes) ==
    IF Len(scopes) > 0 THEN SubSeq(scopes, 1, Len(scopes) - 1) ELSE scopes

\* TcDeclare writing to the innermost scope that already binds the name.
TcDeclareInBindingScope(scopes, name, is_mutable, loc, ty) ==
    LET s == IF Len(scopes) = 0 THEN <<EmptyMap>> ELSE scopes
        at == IF TcLookupIndex(s, name) # 0 THEN TcLookupIndex(s, name) ELSE Len(s)
    IN  [s EXCEPT ![at] = MapPut(s[at], name, SymbolInfo(is_mutable, loc, ty))]

TcDeclare(scopes, name, is_mutable, loc, ty) ==
    LET s == IF Len(scopes) = 0 THEN <<EmptyMap>> ELSE scopes
    IN  [s EXCEPT ![Len(s)] = MapPut(s[Len(s)], name, SymbolInfo(is_mutable, loc, ty))]

toTypeName(t) == IF t = "Number" THEN "number" ELSE "string"

\* The result of inferExprType: the type, or the exception it threw.
Typed(t) == [type |-> t, err |-> NoError]
Threw(e) == [type |-> "Number", err |-> e]

RECURSIVE inferExprType(_, _)
inferExprType(expr, scopes) ==
    CASE expr.k = "num" -> Typed("Number")
      [] expr.k = "var" ->
            LET i == TcLookupIndex(scopes, expr.name)
            IN  IF i = 0
                THEN Threw(ParseError(
                        <<"cannot find value '" \o expr.name \o "' in this scope">>,
                        expr.loc))
                ELSE Typed(scopes[i][expr.name].type)
      [] expr.k = "str" -> Typed("String")
      [] expr.k = "un" ->
            LET t == inferExprType(expr.operand, scopes)
            IN  IF t.err.kind # "none" THEN t
                ELSE IF t.type = "String"
                THEN Threw(RuntimeError("String literal cannot be used in unary operation"))
                ELSE Typed("Number")
      [] expr.k = "bin" ->
            LET lt == inferExprType(expr.lhs, scopes)
            IN  IF lt.err.kind # "none" THEN lt
                ELSE LET rt == inferExprType(expr.rhs, scopes)
                     IN  IF rt.err.kind # "none" THEN rt
                         ELSE IF lt.type = "String"
                         THEN Threw(RuntimeError(
                            "String literal cannot be used in binary operation (left operand)"))
                         ELSE IF rt.type = "String"
                         THEN Threw(RuntimeError(
                            "String literal cannot be used in binary operation (right operand)"))
                         ELSE Typed("Number")
      \* No branch of inferExprType matches an AssignmentExprAST.
      [] OTHER -> Typed("Number")

\* MismatchMessage with the expected and the found type exchanged.
MismatchMessageSwapped(info, rhsType) ==
    <<"mismatched types">>
    \o (IF info.declLoc.file # ""
        THEN <<"note: expected due to first assignment: " \o LocText(info.declLoc)>>
        ELSE <<>>)
    \o <<"help: expected " \o toTypeName(rhsType) \o ", found " \o toTypeName(info.type)>>

\* ImmutableMessage without its help line.
ImmutableMessageWithoutHelp(info, name) ==
    <<"Cannot reassign to immutable variable '" \o name \o "'">>
    \o (IF info.declLoc.file # ""
        THEN <<"note: first assignment here: " \o LocText(info.declLoc)>>
        ELSE <<>>)

\* The note and help lines of the two reassignment errors.
MismatchMessage(info, rhsType) ==
    <<"mismatched types">>
    \o (IF info.declLoc.file # ""
        THEN <<"note: expected due to first assignment: " \o LocText(info.declLoc)>>
        ELSE <<>>)
    \o <<"help: expected " \o toTypeName(info.type) \o ", found " \o toTypeName(rhsType)>>

ImmutableMessage(info, name) ==
    <<"Cannot reassign to immutable variable '" \o name \o "'">>
    \o (IF info.declLoc.file # ""
        THEN <<"note: first assignment here: " \o LocText(info.declLoc)>>
        ELSE <<>>)
    \o <<"help: consider making this binding mutable: 'mut " \o name \o "'">>

\* The result of checking one node: the scopes after it and the exception it
\* threw (NoError when it returned).
Checked(s) == [scopes |-> s, err |-> NoError]
Rejected(s, e) == [scopes |-> s, err |-> e]

\* typeCheckNode on an AssignmentExprAST.
CheckAssignment(assign, scopes) ==
    LET rhs == inferExprType(assign.value, scopes)
        name == assign.name
        top == Len(scopes)
        near == TcLookupIndex(scopes, name)
    IN  IF rhs.err.kind # "none" THEN Rejected(scopes, rhs.err)
        ELSE IF assign.is_mut
        THEN Checked(TcDeclare(scopes, name, TRUE, assign.loc, rhs.type))
        ELSE IF TcHasCurrent(scopes, name)
        THEN LET cur == scopes[top][name]
             IN  IF cur.is_mutable
                 THEN IF cur.type # rhs.type
                      THEN Rejected(scopes,
                              ParseError(MismatchMessage(cur, rhs.type), assign.loc))
                      ELSE Checked(scopes)
                 ELSE Rejected(scopes,
                              ParseError(ImmutableMessage(cur, name), assign.loc))
        ELSE IF near # 0
        THEN LET nearest == scopes[near][name]
             IN  IF nearest.is_mutable
                 THEN IF nearest.type # rhs.type
                      THEN Rejected(scopes,
                              ParseError(MismatchMessage(nearest, rhs.type), assign.loc))
                      ELSE Checked(scopes)
                 ELSE Checked(TcDeclare(scopes, name, FALSE, assign.loc, rhs.type))
        ELSE Checked(TcDeclare(scopes, name, FALSE, assign.loc, rhs.type))

\* typeCheckExpr on each expression of a list, in order, until one throws.
RECURSIVE CheckExprs(_, _)
CheckExprs(exprs, scopes) ==
    IF exprs = <<>> THEN NoError
    ELSE LET t == inferExprType(Head(exprs), scopes)
         IN  IF t.err.kind # "none" THEN t.err ELSE CheckExprs(Tail(exprs), scopes)

\* typeCheckNode on one item of the flattened program.
CheckItem(node, scopes) ==
    CASE node.k = "asg" -> CheckAssignment(node, scopes)
      [] node.k \in ExprKinds \ {"asg"} ->
            Rejected(scopes, inferExprType(node, scopes).err)
      [] node.k = "print" ->
            Rejected(scopes, CheckExprs(<<node.fmt>> \o node.args, scopes))
      \* if: the condition, the scope of the then branch, the scope of its block.
      [] node.k = "if" ->
            LET c == inferExprType(node.cond, scopes)
            IN  IF c.err.kind # "none" THEN Rejected(scopes, c.err)
                ELSE Checked(TcEnterScope(TcEnterScope(scopes)))
      \* The then block and branch end, the else branch and its block begin.
      [] node.k = "else" ->
            Checked(TcEnterScope(TcEnterScope(TcExitScope(TcExitScope(scopes)))))
      [] node.k = "endif" -> Checked(TcExitScope(TcExitScope(scopes)))
      [] node.k = "while" ->
            LET c == inferExprType(node.cond, scopes)
            IN  IF c.err.kind # "none" THEN Rejected(scopes, c.err)
                ELSE Checked(TcEnterScope(TcEnterScope(scopes)))
      [] node.k = "endwhile" -> Checked(TcExitScope(TcExitScope(scopes)))

----------------------------------------------------------------------------
(* CodeGen (src/include/codegen.h, src/src/codegen.cpp)                     *)

\* An llvm::Value: a constant, a global string, or the result of the
\* instruction at index id of the emitted code.
ConstFP(v) == [ty |-> "double", kind |-> "const", id |-> 0, val |-> v]
GlobalString(s) == [ty |-> "ptr", kind |-> "global", id |-> 0, val |-> 0]
InstValue(t, i) == [ty |-> t, kind |-> "inst", id |-> i, val |-> 0]
NoValue == [ty |-> "none", kind |-> "none", id |-> 0, val |-> 0]

\* One emitted instruction: bb is the block it was inserted into, slot the
\* alloca it allocates, loads or stores to, args its operands, t1 and t2 the
\* blocks a branch or a PHI names.
Instr(o, t, block, s, operands, b1, b2) ==
    [op |-> o, ty |-> t, bb |-> block, slot |-> s, args |-> operands,
     t1 |-> b1, t2 |-> b2]

Symbol(a, m) == [allocaInst |-> a, is_mutable |-> m]

\* CodeGen::CodeGen and setupLLVMFunction: one global scope, the entry block
\* (block 1) of main as the insertion point.
CgInit ==
    [scopes |-> <<EmptyMap>>, nalloca |-> 0, code |-> <<>>, bb |-> 1, nblocks |-> 1,
     frames |-> <<>>, last |-> NoValue, val |-> NoValue, err |-> NoError]

Emit(st, ins) == [st EXCEPT !.code = Append(@, ins)]

CgLookupIndex(scopes, name) ==
    LET hits == {i \in 1..Len(scopes) : name \in DOMAIN scopes[i]}
    IN  IF hits = {} THEN 0 ELSE CHOOSE i \in hits : \A j \in hits : j <= i

hasCurrentSymbol(scopes, name) ==
    Len(scopes) > 0 /\ name \in DOMAIN scopes[Len(scopes)]

isCurrentSymbolMutable(scopes, name) ==
    IF hasCurrentSymbol(scopes, name) THEN scopes[Len(scopes)][name].is_mutable ELSE FALSE

hasNearestSymbol(scopes, name) == CgLookupIndex(scopes, name) # 0

isNearestSymbolMutable(scopes, name) ==
    LET i == CgLookupIndex(scopes, name)
    IN  IF i # 0 THEN scopes[i][name].is_mutable ELSE FALSE

\* getVariable / getNearestAlloca: the slot, 0 for nullptr.
getVariable(scopes, name) ==
    LET i == CgLookupIndex(scopes, name)
    IN  IF i # 0 THEN scopes[i][name].allocaInst ELSE 0

getCurrentAlloca(scopes, name) ==
    IF hasCurrentSymbol(scopes, name) THEN scopes[Len(scopes)][name].allocaInst ELSE 0

CgEnterScope(scopes) == Append(scopes, EmptyMap)

CgExitScope(scopes) ==
    LET popped == IF Len(scopes) > 0 THEN SubSeq(scopes, 1, Len(scopes) - 1) ELSE scopes
    IN  IF Len(popped) = 0 THEN <<EmptyMap>> ELSE popped

\* declareVariable keeping the alloca of a name the current scope already
\* binds.
declareVariableReusingAlloca(st, name, is_mutable) ==
    IF hasCurrentSymbol(st.scopes, name)
    THEN [st EXCEPT !.scopes[Len(st.scopes)][name].is_mutable = is_mutable]
    ELSE [st EXCEPT
            !.code = Append(@, Instr("alloca", "double", 1, st.nalloca + 1, <<>>, 0, 0)),
            !.nalloca = @ + 1,
            !.scopes[Len(st.scopes)] = MapPut(@, name, Symbol(st.nalloca + 1, is_mutable))]

\* declareVariable: an alloca in the entry block, bound in the current scope.
declareVariable(st, name, is_mutable) ==
    LET a == st.nalloca + 1
        top == Len(st.scopes)
    IN  [Emit(st, Instr("alloca", "double", 1, a, <<>>, 0, 0))
            EXCEPT !.nalloca = a,
                   !.scopes = [@ EXCEPT ![top] = MapPut(@, name, Symbol(a, is_mutable))]]

\* The state after declareVariable and the alloca it returned.
Declared(d, name) == [st |-> d, slot |-> getCurrentAlloca(d.scopes, name)]

\* AssignTarget declaring a new binding whatever the scopes hold.
AssignTargetAlwaysDeclares(st, name, isMutDecl) ==
    Declared(declareVariable(st, name, isMutDecl), name)

\* AssignTarget storing to the slot of whatever symbol it finds, mutable or
\* not.
AssignTargetReusingSlot(st, name, isMutDecl) ==
    IF isMutDecl
    THEN Declared(declareVariable(st, name, TRUE), name)
    ELSE IF hasNearestSymbol(st.scopes, name)
    THEN [st |-> st, slot |-> getVariable(st.scopes, name)]
    ELSE Declared(declareVariable(st, name, FALSE), name)

\* The binding decision of AssignmentExprAST::codegen: the state after it
\* (with a new alloca when it declares) and the slot to store to.
AssignTarget(st, name, isMutDecl) ==
    IF isMutDecl
    THEN Declared(declareVariable(st, name, TRUE), name)
    ELSE IF hasCurrentSymbol(st.scopes, name) /\ isCurrentSymbolMutable(st.scopes, name)
    THEN [st |-> st, slot |-> getCurrentAlloca(st.scopes, name)]
    ELSE IF hasCurrentSymbol(st.scopes, name)
    THEN Declared(declareVariable(st, name, FALSE), name)
    ELSE IF hasNearestSymbol(st.scopes, name) /\ isNearestSymbolMutable(st.scopes, name)
    THEN [st |-> st, slot |-> getVariable(st.scopes, name)]
    ELSE Declared(declareVariable(st, name, FALSE), name)

ArithOps == {"+", "-", "*", "/"}
CompareOps == {"<", "<=", ">", ">=", "==", "!="}

ArithInstr(o) ==
    CASE o = "+" -> "fadd" [] o = "-" -> "fsub" [] o = "*" -> "fmul" [] o = "/" -> "fdiv"

CompareInstr(o) ==
    CASE o = "<" -> "fcmp olt" [] o = "<=" -> "fcmp ole" [] o = ">" -> "fcmp ogt"
      [] o = ">=" -> "fcmp oge" [] o = "==" -> "fcmp oeq" [] o = "!=" -> "fcmp one"

\* An instruction emitted whose result is the value returned.
EmitValue(st, ins) ==
    [st EXCEPT !.code = Append(@, ins), !.val = InstValue(ins.ty, Len(st.code) + 1)]

Throw(st, e) == [st EXCEPT !.err = e]

RECURSIVE CgExpr(_, _)

\* VariableExprAST::codegen with a the slot getVariable found.
LoadVariable(e, st, a) ==
    IF a = 0
    THEN Throw(st, ParseError(<<"cannot find value '" \o e.name \o "' in this scope">>,
                              e.loc))
    ELSE EmitValue(st, Instr("load", "double", st.bb, a, <<>>, 0, 0))

\* UnaryExprAST::codegen after its operand, s1.
UnaryCodegen(e, s1) ==
    IF s1.err.kind # "none" THEN s1
    ELSE IF e.op = "-"
    THEN EmitValue(s1, Instr("fneg", s1.val.ty, s1.bb, 0, <<s1.val>>, 0, 0))
    ELSE Throw(s1, RuntimeError("Invalid unary operator"))

\* BinaryExprAST::codegen after both operands: L the left value, s2 the state
\* after the right one.
BinaryOperation(e, L, s2) ==
    IF s2.err.kind # "none" THEN s2
    ELSE IF e.op \in ArithOps
    THEN EmitValue(s2, Instr(ArithInstr(e.op), L.ty, s2.bb, 0, <<L, s2.val>>, 0, 0))
    ELSE IF e.op \in CompareOps
    THEN EmitValue(Emit(s2, Instr(CompareInstr(e.op), "i1", s2.bb, 0, <<L, s2.val>>, 0, 0)),
                   Instr("uitofp", "double", s2.bb, 0,
                         <<InstValue("i1", Len(s2.code) + 1)>>, 0, 0))
    ELSE Throw(s2, RuntimeError("Invalid binary operator"))

\* BinaryExprAST::codegen after its left operand, s1.
BinaryCodegen(e, s1) ==
    IF s1.err.kind # "none" THEN s1
    ELSE BinaryOperation(e, s1.val, CgExpr(e.rhs, s1))

\* The store of AssignmentExprAST::codegen: t the binding decision, v the
\* value, which is also the value returned.
StoreValue(t, v) ==
    [Emit(t.st, Instr("store", v.ty, t.st.bb, t.slot, <<v>>, 0, 0)) EXCEPT !.val = v]

\* AssignmentExprAST::codegen after its right-hand side, s1.
AssignmentCodegen(e, s1) ==
    IF s1.err.kind # "none" THEN s1
    ELSE StoreValue(AssignTarget(s1, e.name, e.is_mut), s1.val)

\* codegen() of the expression nodes: st.val is the value returned, st.err
\* the exception thrown.
CgExpr(e, st) ==
    CASE e.k = "num" -> [st EXCEPT !.val = ConstFP(e.val)]
      [] e.k = "var" -> LoadVariable(e, st, getVariable(st.scopes, e.name))
      [] e.k = "str" -> [st EXCEPT !.val = GlobalString(e.value)]
      [] e.k = "un" -> UnaryCodegen(e, CgExpr(e.operand, st))
      [] e.k = "bin" -> BinaryCodegen(e, CgExpr(e.lhs, st))
      [] e.k = "asg" -> AssignmentCodegen(e, CgExpr(e.value, st))

Digits == {"0", "1", "2", "3", "4", "5", "6", "7", "8", "9"}

\* The first index from j on that holds no digit (Len(f) + 1 when none).
RECURSIVE SkipDigits(_, _)
SkipDigits(f, j) == IF j <= Len(f) /\ f[j] \in Digits THEN SkipDigits(f, j + 1) ELSE j

CallPrintf(st, operands) ==
    EmitValue(st, Instr("call printf", "i32", st.bb, 0, operands, 0, 0))

RECURSIVE PrintWalk(_, _, _, _, _, _)

\* A %f %g %e %d %s specifier at index i, after its argument's codegen, s1.
PrintSpecifier(f, args, i, argIndex, vals, s1) ==
    IF s1.err.kind # "none" THEN s1
    ELSE IF f[i + 1] = "d"
    THEN PrintWalk(f, args, i + 2, argIndex + 1,
                   Append(vals, InstValue("i32", Len(s1.code) + 1)),
                   Emit(s1, Instr("fptosi", "i32", s1.bb, 0, <<s1.val>>, 0, 0)))
    ELSE IF f[i + 1] = "s" /\ args[argIndex + 1].k # "str"
    THEN Throw(s1, RuntimeError("%s format specifier requires string literal argument"))
    ELSE PrintWalk(f, args, i + 2, argIndex + 1, Append(vals, s1.val), s1)

\* A %.N specifier whose digits end before index j, after its argument's
\* codegen, s1.
PrintPrecision(f, args, j, argIndex, vals, s1) ==
    IF s1.err.kind # "none" THEN s1
    ELSE PrintWalk(f, args, j + 1, argIndex + 1, Append(vals, s1.val), s1)

\* The %.N branch of the walk, j the index after the digits.
PrintPrecisionAt(f, args, i, j, argIndex, vals, st) ==
    IF j <= Len(f) /\ f[j] \in {"f", "g", "e"}
    THEN IF argIndex < Len(args)
         THEN PrintPrecision(f, args, j, argIndex, vals, CgExpr(args[argIndex + 1], st))
         ELSE Throw(st, RuntimeError("Not enough arguments for format string"))
    ELSE PrintWalk(f, args, i + 1, argIndex, vals, st)

\* PrintStmtAST::codegen with a literal format and arguments: the walk over
\* the format from index i on (1-based), argIndex arguments consumed so far,
\* vals the printf operands collected after the format.
PrintWalk(f, args, i, argIndex, vals, st) ==
    IF i > Len(f)
    THEN IF argIndex < Len(args)
         THEN Throw(st, RuntimeError("Too many arguments for format string"))
         ELSE CallPrintf(st, <<GlobalString(f)>> \o vals)
    ELSE IF f[i] = "%" /\ i + 1 <= Len(f)
    THEN IF f[i + 1] = "%"
         THEN PrintWalk(f, args, i + 2, argIndex, vals, st)
         ELSE IF f[i + 1] \in {"f", "g", "e", "d", "s"}
         THEN IF argIndex < Len(args)
              THEN PrintSpecifier(f, args, i, argIndex, vals, CgExpr(args[argIndex + 1], st))
              ELSE Throw(st, RuntimeError("Not enough arguments for format string"))
         ELSE IF f[i + 1] = "." /\ i + 2 <= Len(f) /\ f[i + 2] \in Digits
         THEN PrintPrecisionAt(f, args, i, SkipDigits(f, i + 2), argIndex, vals, st)
         ELSE PrintWalk(f, args, i + 1, argIndex, vals, st)
    ELSE PrintWalk(f, args, i + 1, argIndex, vals, st)

\* PrintStmtAST::codegen after the codegen of its format expression, s1.
PrintCodegen(node, s1) ==
    IF s1.err.kind # "none" THEN s1
    ELSE IF node.fmt.k = "str" /\ node.args # <<>>
    THEN PrintWalk(node.fmt.value, node.args, 1, 0, <<>>, s1)
    ELSE IF node.fmt.k = "str"
    THEN CallPrintf(s1, <<GlobalString(<<"%", "s">>), GlobalString(node.fmt.value)>>)
    ELSE CallPrintf(s1, <<GlobalString(<<"%", ".", "1", "5", "f", "\n">>), s1.val>>)

\* PrintStmtAST::codegen.
CgPrint(node, st) == PrintCodegen(node, CgExpr(node.fmt, st))

\* The value BlockAST::codegen returns: the last statement's, or 0.0.
BlockValue(last) == IF last.kind = "none" THEN ConstFP(0) ELSE last

\* The end of a branch of IfStmtAST::codegen: v, the value of the block, is
\* widened by SIToFP when its type is an integer type. The state after it,
\* and the value.
Widen(st, v) ==
    IF v.ty \in {"i1", "i32"}
    THEN [st |-> Emit(st, Instr("sitofp", "double", st.bb, 0, <<v>>, 0, 0)),
          val |-> InstValue("double", Len(st.code) + 1)]
    ELSE [st |-> st, val |-> v]

\* The frame of an if or a while whose block is being lowered: the locals of
\* the codegen() call that waits for it. For an if b1, b2, b3 are elseBB,
\* mergeBB, thenBB and thenV the value of the then branch; for a while they
\* are condBB, afterBB, loopBB.
Frame(kd, b1, b2, b3, v) == [kind |-> kd, b1 |-> b1, b2 |-> b2, b3 |-> b3, thenV |-> v]

\* The statement list of ProgramAST::codegen or BlockAST::codegen after one
\* of its statements, s: lastValue.
SetLast(s) == IF s.err.kind # "none" THEN s ELSE [s EXCEPT !.last = s.val]

\* IfStmtAST::codegen after its condition, s1, up to the entry of the then
\* block (BlockAST::codegen: enterScope).
IfThen(s1) ==
    IF s1.err.kind # "none" THEN s1
    ELSE [s1 EXCEPT
            !.code = @ \o <<Instr("fcmp one", "i1", s1.bb, 0, <<s1.val, ConstFP(0)>>, 0, 0),
                            Instr("condbr", "void", s1.bb, 0,
                                  <<InstValue("i1", Len(s1.code) + 1)>>,
                                  s1.nblocks + 1, s1.nblocks + 2)>>,
            !.nblocks = @ + 3,
            !.bb = s1.nblocks + 1,
            !.frames = Append(@, Frame("then", s1.nblocks + 2, s1.nblocks + 3,
                                       s1.nblocks + 1, NoValue)),
            !.last = NoValue,
            !.scopes = CgEnterScope(@)]

\* IfStmtAST::codegen without thenBB = GetInsertBlock() after the branch to
\* merge: the PHI names the block the then branch began in.
IfElseKeepingThenBlock(fr, w) ==
    [Emit(w.st, Instr("br", "void", w.st.bb, 0, <<>>, fr.b2, 0)) EXCEPT
        !.frames[Len(w.st.frames)] = [fr EXCEPT !.kind = "else", !.thenV = w.val],
        !.bb = fr.b1,
        !.last = NoValue,
        !.scopes = CgEnterScope(@)]

\* The then block is left (exitScope) with value w.val in state w.st; the
\* branch to merge; the else block is entered.
IfElse(fr, w) ==
    [Emit(w.st, Instr("br", "void", w.st.bb, 0, <<>>, fr.b2, 0)) EXCEPT
        !.frames[Len(w.st.frames)] = [fr EXCEPT !.kind = "else", !.b3 = w.st.bb,
                                                !.thenV = w.val],
        !.bb = fr.b1,
        !.last = NoValue,
        !.scopes = CgEnterScope(@)]

\* The else block is left with value w.val in state w.st; the branch to
\* merge; the PHI of both values in the merge block, which is the value
\* returned.
IfMerge(fr, w) ==
    [w.st EXCEPT
        !.code = @ \o <<Instr("br", "void", w.st.bb, 0, <<>>, fr.b2, 0),
                        Instr("phi", "double", fr.b2, 0, <<fr.thenV, w.val>>,
                              fr.b3, w.st.bb)>>,
        !.bb = fr.b2,
        !.frames = SubSeq(@, 1, Len(@) - 1),
        !.val = InstValue("double", Len(w.st.code) + 2),
        !.last = InstValue("double", Len(w.st.code) + 2)]

\* WhileStmtAST::codegen after its condition, s1, up to the entry of the
\* body block; condBB is the block the condition was lowered into.
WhileBody(s1, condBB) ==
    IF s1.err.kind # "none" THEN s1
    ELSE [s1 EXCEPT
            !.code = @ \o <<Instr("fcmp one", "i1", s1.bb, 0, <<s1.val, ConstFP(0)>>, 0, 0),
                            Instr("condbr", "void", s1.bb, 0,
                                  <<InstValue("i1", Len(s1.code) + 1)>>,
                                  condBB + 1, condBB + 2)>>,
            !.bb = condBB + 1,
            !.frames = Append(@, Frame("while", condBB, condBB + 2, condBB + 1, NoValue)),
            !.last = NoValue,
            !.scopes = CgEnterScope(@)]

\* The body block is left in state s1; the back edge; the after block; the
\* value returned is 0.0.
WhileAfter(fr, s1) ==
    [Emit(s1, Instr("br", "void", s1.bb, 0, <<>>, fr.b1, 0)) EXCEPT
        !.bb = fr.b2,
        !.frames = SubSeq(@, 1, Len(@) - 1),
        !.val = ConstFP(0),
        !.last = ConstFP(0)]

\* BlockAST::codegen returning without exitScope().
LeaveBlockKeepingScope(st) == st

LeaveBlock(st) == [st EXCEPT !.scopes = CgExitScope(@)]

\* codegen() of one item of the flattened program. st.last is the lastValue
\* of the statement list being lowered.
CgItem(node, st) ==
    CASE node.k \in ExprKinds -> SetLast(CgExpr(node, st))
      [] node.k = "print" -> SetLast(CgPrint(node, st))
      [] node.k = "if" -> IfThen(CgExpr(node.cond, st))
      [] node.k = "else" ->
            IfElse(st.frames[Len(st.frames)], Widen(LeaveBlock(st), BlockValue(st.last)))
      [] node.k = "endif" ->
            IfMerge(st.frames[Len(st.frames)], Widen(LeaveBlock(st), BlockValue(st.last)))
      [] node.k = "while" ->
            WhileBody(CgExpr(node.cond,
                             [Emit(st, Instr("br", "void", st.bb, 0, <<>>, st.nblocks + 1, 0))
                                 EXCEPT !.nblocks = @ + 3, !.bb = st.nblocks + 1]),
                      st.nblocks + 1)
      [] node.k = "endwhile" -> WhileAfter(st.frames[Len(st.frames)], LeaveBlock(st))

----------------------------------------------------------------------------
(* The driver (src/src/main.cpp) and the programs it is run on              *)

\* A std::string as the text of its characters.
RECURSIVE Text(_)
Text(chars) == IF chars = <<>> THEN "" ELSE Head(chars) \o Text(Tail(chars))

InK == <<"i", "n", ".", "k">>
InTxt == <<"i", "n", ".", "t", "x", "t">>
OutLl == <<"o", "u", "t", ".", "l", "l">>
DashO == <<"-", "o">>

\* The argument vectors tried, argv[1] onwards.
ArgVectors ==
    {<<InK>>, <<DashO, OutLl, InK>>, <<InK, DashO, OutLl>>, <<InTxt>>, <<>>,
     <<DashO>>, <<DashO, OutLl>>, <<DashO, OutLl, InTxt>>, <<InTxt, DashO, OutLl>>,
     <<InK, InK>>, <<DashO, OutLl, InK, InK>>}

\* options.inputFile.substr(length - 2) != ".k", with the length test before it.
LacksKExtension(f) == Len(f) < 2 \/ SubSeq(f, Len(f) - 1, Len(f)) # <<".", "k">>

\* parseCommandLine: the options, or the exception.
parseCommandLine(args) ==
    LET argc == Len(args) + 1
        opts == IF argc = 2
                THEN [inputFile |-> args[1], outputFile |-> <<"a", ".", "l", "l">>, ok |-> TRUE]
                ELSE IF argc = 4 /\ args[1] = DashO
                THEN [inputFile |-> args[3], outputFile |-> args[2], ok |-> TRUE]
                ELSE [inputFile |-> <<>>, outputFile |-> <<>>, ok |-> FALSE]
    IN  IF ~opts.ok
        THEN [opts |-> opts, err |-> RuntimeError("invalid command line arguments")]
        ELSE IF LacksKExtension(opts.inputFile)
        THEN [opts |-> opts, err |-> RuntimeError("input file must have the .k extension")]
        ELSE [opts |-> opts, err |-> NoError]

NoOptions == [inputFile |-> <<>>, outputFile |-> <<>>, ok |-> FALSE]

\* The expressions and statements the programs of the model are made of; a
\* statement stands on the line of its index, its sub-expressions at the
\* columns they have in "mut x = e;", "x = e;", "print e;", "if (e) {".
Loc(f, l, c) == SourceLocation(Text(f), l, c)

Operands(f, l, c) ==
    {NumberExprAST(1, Loc(f, l, c)), StringLiteralAST(<<"s">>, Loc(f, l, c))}
    \cup {VariableExprAST(n, Loc(f, l, c)) : n \in Names}
    \cup {BinaryExprAST("<", NumberExprAST(1, Loc(f, l, c)),
                        VariableExprAST(n, Loc(f, l, c + 4)), Loc(f, l, c + 2)) :
            n \in Names}

NestedAssignments(f, l, c) ==
    {AssignmentExprAST(n, e, FALSE, Loc(f, l, c)) :
        n \in Names,
        e \in {NumberExprAST(1, Loc(f, l, c + 4)),
               UnaryExprAST("-", StringLiteralAST(<<"s">>, Loc(f, l, c + 5)),
                            Loc(f, l, c + 4))}}

Statements(f, l) ==
    {AssignmentExprAST(n, e, FALSE, Loc(f, l, 1)) : n \in Names, e \in Operands(f, l, 5)}
    \cup {AssignmentExprAST(n, e, TRUE, Loc(f, l, 5)) : n \in Names, e \in Operands(f, l, 9)}
    \cup {PrintStmtAST(e, <<>>, Loc(f, l, 1)) :
            e \in {VariableExprAST(n, Loc(f, l, 7)) : n \in Names}
                  \cup NestedAssignments(f, l, 7)}

Openers(f, l) ==
    {IfStmtAST(NumberExprAST(1, Loc(f, l, 5)), Loc(f, l, 1)),
     WhileStmtAST(NumberExprAST(1, Loc(f, l, 8)), Loc(f, l, 1))}

IsStatement(item) == item.k \notin {"else", "endif", "endwhile"}

\* The number of statements among the items of a program.
RECURSIVE CountStatements(_)
CountStatements(items) ==
    IF items = <<>> THEN 0
    ELSE (IF IsStatement(Head(items)) THEN 1 ELSE 0) + CountStatements(Tail(items))

VARIABLES
    pc,        \* where main() stands
    options,   \* CompilerOptions
    prog,      \* the statements parsed so far, then the whole program
    open,      \* the blocks the parser is inside of
    tcScopes,  \* TypeEnv::scopes
    tcPos,     \* the item typeCheckNode visits next
    tcBefore,  \* TypeEnv::scopes before each visited item
    cg,        \* the CodeGen instance
    cgPos,     \* the item codegen() visits next
    cgBefore,  \* the CodeGen instance before each visited item: its scopes, the
               \* number of its allocas and of its instructions
    err,       \* the exception in flight
    stderr,    \* the diagnostic printed
    outFile,   \* whether the output file was written
    exitCode,  \* main's return value, -1 while it runs
    argv,      \* main's arguments, argv[1] onwards
    input,     \* the source text, and the number of tokens the lexer has delivered
               \* to the parser
    lexer      \* a Lexer, the tokens it has returned and the exception it threw

vars == <<pc, options, prog, open, tcScopes, tcPos, tcBefore, cg, cgPos, cgBefore,
          err, stderr, outFile, exitCode, argv, input, lexer>>

NoDiagnostic == [file |-> "", line |-> 0, column |-> 0, lines |-> <<>>, snippet |-> <<>>]

\* The text of a source that is not looked at, and no Lexer.
NoInput == [text |-> <<>>, pos |-> 1]
NoLexer == [object |-> <<>>, before |-> <<>>, returned |-> <<>>, thrown |-> NoError]

Init ==
    /\ argv \in ArgVectors
    /\ input = NoInput
    /\ lexer = NoLexer
    /\ pc = "main"
    /\ options = NoOptions
    /\ prog = <<>>
    /\ open = <<>>
    /\ tcScopes = <<>>
    /\ tcPos = 0
    /\ tcBefore = <<>>
    /\ cg = CgInit
    /\ cgPos = 0
    /\ cgBefore = <<>>
    /\ err = NoError
    /\ stderr = NoDiagnostic
    /\ outFile = FALSE
    /\ exitCode = -1

\* main: parseCommandLine.
ParseCommandLine ==
    /\ pc = "main"
    /\ \E r \in {parseCommandLine(argv)} :
          /\ options' = r.opts
          /\ err' = r.err
          /\ pc' = IF r.err.kind = "none" THEN "read" ELSE "catch"
    /\ UNCHANGED <<argv, lexer, input, prog, open, tcScopes, tcPos, tcBefore, cg, cgPos, cgBefore,
                   stderr, outFile, exitCode>>

\* main: readFile, which throws when the file cannot be opened.
ReadFile ==
    /\ pc = "read"
    /\ \E opened \in BOOLEAN :
          IF opened
          THEN pc' = "setup" /\ err' = err
          ELSE pc' = "catch" /\ err' = RuntimeError("cannot open file")
    /\ UNCHANGED <<argv, lexer, input, options, prog, open, tcScopes, tcPos, tcBefore, cg, cgPos, cgBefore,
                   stderr, outFile, exitCode>>

\* main: setupLLVMFunction.
SetupLLVMFunction ==
    /\ pc = "setup"
    /\ cg' = CgInit
    /\ pc' = "parse"
    /\ UNCHANGED <<argv, lexer, input, options, prog, open, tcScopes, tcPos, tcBefore, cgPos, cgBefore,
                   err, stderr, outFile, exitCode>>

\* compileSource: one statement parsed by parseProgram or parseBlock.
ParseStatement ==
    /\ pc = "parse"
    /\ CountStatements(prog) < MaxStmts
    /\ \E item \in Statements(options.inputFile, Len(prog) + 1) :
          prog' = Append(prog, item)
    /\ UNCHANGED <<argv, lexer, input, pc, options, open, tcScopes, tcPos, tcBefore, cg, cgPos, cgBefore,
                   err, stderr, outFile, exitCode>>

\* parseIfStatement / parseWhileStatement up to the "{" of the first block.
ParseOpen ==
    /\ pc = "parse"
    /\ CountStatements(prog) < MaxStmts
    /\ Len(open) < MaxDepth
    /\ \E item \in Openers(options.inputFile, Len(prog) + 1) :
          /\ prog' = Append(prog, item)
          /\ open' = Append(open, IF item.k = "if" THEN "then" ELSE "while")
    /\ UNCHANGED <<argv, lexer, input, pc, options, tcScopes, tcPos, tcBefore, cg, cgPos, cgBefore,
                   err, stderr, outFile, exitCode>>

\* parseBlock at "}": the then block (an else block must follow), the else
\* block, or the body of a while.
ParseClose ==
    /\ pc = "parse"
    /\ open # <<>>
    /\ LET top == open[Len(open)]
       IN  IF top = "then"
           THEN /\ prog' = Append(prog, ElseItem)
                /\ open' = [open EXCEPT ![Len(open)] = "else"]
           ELSE /\ prog' = Append(prog, IF top = "else" THEN EndIfItem ELSE EndWhileItem)
                /\ open' = SubSeq(open, 1, Len(open) - 1)
    /\ UNCHANGED <<argv, lexer, input, pc, options, tcScopes, tcPos, tcBefore, cg, cgPos, cgBefore,
                   err, stderr, outFile, exitCode>>

\* The source is ill-formed at the next token: the lexer or the parser throws.
ParseFail ==
    /\ pc = "parse"
    /\ \E lexical \in BOOLEAN :
          err' = IF lexical
                 THEN RuntimeError("Unknown character")
                 ELSE ParseError(<<"Unknown token when expecting an expression">>,
                                 Loc(options.inputFile, Len(prog) + 1, 1))
    /\ pc' = "catch"
    /\ UNCHANGED <<argv, lexer, input, options, prog, open, tcScopes, tcPos, tcBefore, cg, cgPos, cgBefore,
                   stderr, outFile, exitCode>>

\* parseProgram returns at TOK_EOF; typeCheck begins: the global scope.
TypeCheckBegin ==
    /\ pc = "parse"
    /\ open = <<>>
    /\ tcScopes' = TcEnterScope(<<>>)
    /\ tcPos' = 1
    /\ pc' = "check"
    /\ UNCHANGED <<argv, lexer, input, options, prog, open, tcBefore, cg, cgPos, cgBefore,
                   err, stderr, outFile, exitCode>>

\* typeCheckNode on the next statement.
TypeCheckNode ==
    /\ pc = "check"
    /\ tcPos <= Len(prog)
    /\ \E r \in {CheckItem(prog[tcPos], tcScopes)} :
           /\ tcScopes' = r.scopes
           /\ tcBefore' = Append(tcBefore, tcScopes)
           /\ err' = r.err
           /\ IF r.err.kind = "none"
              THEN tcPos' = tcPos + 1 /\ pc' = pc
              ELSE tcPos' = tcPos /\ pc' = "check_catch"
    /\ UNCHANGED <<argv, lexer, input, options, prog, open, cg, cgPos, cgBefore, stderr, outFile, exitCode>>

\* The place compileSource's handler gives a checker error: the first "+" of
\* the source that is not on a comment line, or 1:1 when there is none.
HeuristicLocations(f) == {Loc(f, 1, 1), Loc(f, 2, 3)}

\* compileSource: while (j < input.size() && (input[j] == ' ' || input[j] == '\t')).
RECURSIVE SkipBlanks(_, _)
SkipBlanks(text, j) ==
    IF j <= Len(text) /\ text[j] \in {" ", "\t"} THEN SkipBlanks(text, j + 1) ELSE j

\* compileSource: the line that begins at byte i is a comment line, "//" after
\* its leading blanks.
IsCommentLine(text, i) ==
    \E j \in {SkipBlanks(text, i)} :
        j + 1 <= Len(text) /\ text[j] = "/" /\ text[j + 1] = "/"

\* compileSource: the body of the scanning loop at byte i, and the loop. The
\* result is <<errLine, errCol>>, <<1, 1>> when no "+" is found.
RECURSIVE ScanForPlus(_, _, _, _, _, _)
ScanByte(text, i, errLine, lineIsComment, colCounter) ==
    IF text[i] = "+" /\ ~lineIsComment THEN <<errLine, colCounter>>
    ELSE IF text[i] = "\n"
    THEN ScanForPlus(text, i + 1, errLine + 1, TRUE, lineIsComment, colCounter)
    ELSE ScanForPlus(text, i + 1, errLine, FALSE, lineIsComment,
                     IF text[i] = "\r" THEN colCounter ELSE colCounter + 1)

ScanForPlus(text, i, errLine, atLineStart, lineIsComment, colCounter) ==
    IF i > Len(text) THEN <<1, 1>>
    ELSE ScanByte(text, i, errLine,
                  IF atLineStart THEN IsCommentLine(text, i) ELSE lineIsComment,
                  IF atLineStart THEN 1 ELSE colCounter)

\* The place the handler computes from the text that was compiled; where the
\* program is given as statements, without its text, one of the two above.
TypeErrorLocations(text, f) ==
    IF text = <<>> THEN HeuristicLocations(f)
    ELSE {Loc(f, found[1], found[2]) :
            found \in {ScanForPlus(text, 1, 1, TRUE, FALSE, 1)}}

\* compileSource: catch (const std::runtime_error&) around typeCheck.
RethrowTypeError ==
    /\ pc = "check_catch"
    /\ \E where \in TypeErrorLocations(input.text, options.inputFile) :
          err' = ParseError(err.what, where)
    /\ pc' = "catch"
    /\ UNCHANGED <<argv, lexer, input, options, prog, open, tcScopes, tcPos, tcBefore, cg, cgPos, cgBefore,
                   stderr, outFile, exitCode>>

\* typeCheck returns: the global scope is left; programAST->codegen() begins.
CodegenBegin ==
    /\ pc = "check"
    /\ tcPos > Len(prog)
    /\ tcScopes' = TcExitScope(tcScopes)
    /\ cgPos' = 1
    /\ pc' = "lower"
    /\ UNCHANGED <<argv, lexer, input, options, prog, open, tcPos, tcBefore, cg, cgBefore,
                   err, stderr, outFile, exitCode>>

\* codegen() of the next statement.
CodegenNode ==
    /\ pc = "lower"
    /\ cgPos <= Len(prog)
    /\ \E r \in {CgItem(prog[cgPos], cg)} :
           /\ cg' = r
           /\ cgBefore' = Append(cgBefore, [scopes |-> cg.scopes, nalloca |-> cg.nalloca,
                                            ncode |-> Len(cg.code)])
           /\ err' = r.err
           /\ IF r.err.kind = "none"
              THEN cgPos' = cgPos + 1 /\ pc' = pc
              ELSE cgPos' = cgPos /\ pc' = "catch"
    /\ UNCHANGED <<argv, lexer, input, options, prog, open, tcScopes, tcPos, tcBefore, stderr, outFile, exitCode>>

\* compileSource: the return of main after the last statement.
CreateRet ==
    /\ pc = "lower"
    /\ cgPos > Len(prog)
    /\ cg' = Emit(cg, Instr("ret", "void", cg.bb, 0, <<ConstFP(0)>>, 0, 0))
    /\ pc' = "save"
    /\ UNCHANGED <<argv, lexer, input, options, prog, open, tcScopes, tcPos, tcBefore, cgPos, cgBefore,
                   err, stderr, outFile, exitCode>>

\* main: saveIRToFile, which throws when the output cannot be opened, and
\* return 0.
SaveIRToFile ==
    /\ pc = "save"
    /\ \E opened \in BOOLEAN :
          IF opened
          THEN outFile' = TRUE /\ exitCode' = 0 /\ pc' = "exit" /\ err' = err
          ELSE /\ outFile' = outFile /\ exitCode' = exitCode /\ pc' = "catch"
               /\ err' = RuntimeError("cannot open output file")
    /\ UNCHANGED <<argv, lexer, input, options, prog, open, tcScopes, tcPos, tcBefore, cg, cgPos, cgBefore,
                   stderr>>

\* getLine: the loop that looks for the start of line lineNumber from byte i
\* (counted from 0) on. The result is <<currentLine, lineStart>>.
RECURSIVE LineStartFrom(_, _, _, _, _)
LineStartFrom(source, i, currentLine, lineStart, lineNumber) ==
    IF i < Len(source) /\ currentLine < lineNumber
    THEN IF source[i + 1] = "\n"
         THEN LineStartFrom(source, i + 1, currentLine + 1, i + 1, lineNumber)
         ELSE LineStartFrom(source, i + 1, currentLine, lineStart, lineNumber)
    ELSE <<currentLine, lineStart>>

\* source.find('\n', lineStart), source.size() for npos; counted from 0.
RECURSIVE FindNewline(_, _)
FindNewline(source, i) ==
    IF i >= Len(source) THEN Len(source)
    ELSE IF source[i + 1] = "\n" THEN i
    ELSE FindNewline(source, i + 1)

\* getLine after its loop.
LineFrom(source, found, lineNumber) ==
    IF found[1] # lineNumber THEN <<>>
    ELSE SubSeq(source, found[2] + 1, FindNewline(source, found[2]))

getLine(source, lineNumber) ==
    IF lineNumber < 1 THEN <<>>
    ELSE LineFrom(source, LineStartFrom(source, 0, 1, 0, lineNumber), lineNumber)

\* printParseError: the header file:line:column, the line of the source
\* under it (printed with a caret when it is not empty), the lines of what().
printParseError(e, source) ==
    [file |-> e.loc.file, line |-> e.loc.line, column |-> e.loc.column,
     lines |-> e.what, snippet |-> getLine(source, e.loc.line)]

\* main's handlers returning 0 instead of 1.
CatchReturningZero ==
    /\ pc = "catch"
    /\ stderr' = IF err.kind = "ParseError"
                 THEN printParseError(err, input.text)
                 ELSE [NoDiagnostic EXCEPT !.lines = err.what]
    /\ exitCode' = 0
    /\ pc' = "exit"
    /\ UNCHANGED <<argv, lexer, input, options, prog, open, tcScopes, tcPos, tcBefore, cg, cgPos, cgBefore,
                   err, outFile>>

\* main: the handlers. A ParseError is printed by printParseError as
\* file:line:col: error: headline and the remaining lines; return 1.
Catch ==
    /\ pc = "catch"
    /\ stderr' = IF err.kind = "ParseError"
                 THEN printParseError(err, input.text)
                 ELSE [NoDiagnostic EXCEPT !.lines = err.what]
    /\ exitCode' = 1
    /\ pc' = "exit"
    /\ UNCHANGED <<argv, lexer, input, options, prog, open, tcScopes, tcPos, tcBefore, cg, cgPos, cgBefore,
                   err, outFile>>

Next ==
    \/ ParseCommandLine
    \/ ReadFile
    \/ SetupLLVMFunction
    \/ ParseStatement
    \/ ParseOpen
    \/ ParseClose
    \/ ParseFail
    \/ TypeCheckBegin
    \/ TypeCheckNode
    \/ RethrowTypeError
    \/ CodegenBegin
    \/ CodegenNode
    \/ CreateRet
    \/ SaveIRToFile
    \/ Catch

Spec == Init /\ [][Next]_vars

----------------------------------------------------------------------------
(* The lexer and the parser on a source text (src/src/lexer.cpp,            *)
(* src/src/parser.cpp)                                                      *)

\* The characters of a source text are strings of length one; a byte of a
\* multibyte character is written "<c3>". NUL is the '\0' that currentChar
\* holds at the end of the input.
NUL == ""
Letters ==
    {"a", "b", "c", "d", "e", "f", "g", "h", "i", "j", "k", "l", "m",
     "n", "o", "p", "q", "r", "s", "t", "u", "v", "w", "x", "y", "z",
     "A", "B", "C", "D", "E", "F", "G", "H", "I", "J", "K", "L", "M",
     "N", "O", "P", "Q", "R", "S", "T", "U", "V", "W", "X", "Y", "Z"}
HighBytes == {"<c3>", "<a9>"}
isspace(c) == c \in {" ", "\t", "\n", "\r", "\f"}
isdigit(c) == c \in Digits
isalpha(c) == c \in Letters
isalnum(c) == isalpha(c) \/ isdigit(c)

SourceRange(s, e) == [start |-> s, end |-> e]

Token(type, value, numValue, range) ==
    [type |-> type, value |-> value, numValue |-> numValue, range |-> range]

\* input[pos] when pos < input.length(), with pos counted from 0.
CharAt(text, pos) == IF pos < Len(text) THEN text[pos + 1] ELSE NUL

\* Lexer::Lexer.
Lexer(text, filename) ==
    [input |-> text, filename |-> filename, pos |-> 0,
     currentChar |-> CharAt(text, 0), line |-> 1, column |-> 1]

currentLocation(L) == SourceLocation(L.filename, L.line, L.column)

\* The end of Lexer::advance: currentChar is read at the new pos.
Moved(L, pos, line, column) ==
    [L EXCEPT !.pos = pos, !.line = line, !.column = column,
              !.currentChar = CharAt(L.input, pos)]

\* Lexer::advance without its branch for '\r'.
advanceCountingEveryByte(L) ==
    IF L.currentChar = "\n" THEN Moved(L, L.pos + 1, L.line + 1, 1)
    ELSE IF L.currentChar = NUL THEN L
    ELSE Moved(L, L.pos + 1, L.line, L.column + 1)

\* Lexer::advance.
advance(L) ==
    IF L.currentChar = "\r"
    THEN Moved(L, IF CharAt(L.input, L.pos + 1) = "\n" THEN L.pos + 2 ELSE L.pos + 1,
               L.line + 1, 1)
    ELSE IF L.currentChar = "\n" THEN Moved(L, L.pos + 1, L.line + 1, 1)
    ELSE IF L.currentChar = NUL THEN L
    ELSE Moved(L, L.pos + 1, L.line, L.column + 1)

\* Lexer::skipWhitespace.
RECURSIVE skipWhitespace(_)
skipWhitespace(L) ==
    IF L.currentChar # NUL /\ isspace(L.currentChar) THEN skipWhitespace(advance(L))
    ELSE L

\* The lexer stands at the two slashes of a comment.
AtComment(L) == L.currentChar = "/" /\ CharAt(L.input, L.pos + 1) = "/"

\* Lexer::skipComment: the loop up to the end of the line, and the line
\* terminator after it.
RECURSIVE SkipLine(_)
SkipLine(L) ==
    IF L.currentChar \notin {NUL, "\n", "\r"} THEN SkipLine(advance(L)) ELSE L

EndLine(L) == IF L.currentChar \in {"\n", "\r"} THEN advance(L) ELSE L

skipComment(L) == IF AtComment(L) THEN EndLine(SkipLine(L)) ELSE L

\* What a read function returns: the lexer after it and what it read, or
\* the lexer as it stands and the exception thrown.
Read(L, str) == [lexer |-> L, str |-> str, err |-> NoError]
Failed(L, e) == [lexer |-> L, str |-> <<>>, err |-> e]

\* std::stod on digits with at most one '.', not at either end: the number
\* itself when it is whole, else its whole part and its decimals.
RECURSIVE Decimal(_)
Decimal(digits) ==
    IF digits = <<>> THEN 0
    ELSE 10 * Decimal(SubSeq(digits, 1, Len(digits) - 1))
         + (CHOOSE d \in 0..9 : ToString(d) = digits[Len(digits)])

RECURSIVE WithoutTrailingZeros(_)
WithoutTrailingZeros(digits) ==
    IF digits # <<>> /\ digits[Len(digits)] = "0"
    THEN WithoutTrailingZeros(SubSeq(digits, 1, Len(digits) - 1))
    ELSE digits

\* The digits of numStr before its '.', and its decimals.
DotAt(numStr) ==
    IF \A i \in 1..Len(numStr) : numStr[i] # "." THEN Len(numStr) + 1
    ELSE CHOOSE i \in 1..Len(numStr) : numStr[i] = "."
Whole(numStr) == Decimal(SubSeq(numStr, 1, DotAt(numStr) - 1))
Decimals(numStr) == WithoutTrailingZeros(SubSeq(numStr, DotAt(numStr) + 1, Len(numStr)))

stod(numStr) ==
    IF Decimals(numStr) = <<>> THEN Whole(numStr)
    ELSE [whole |-> Whole(numStr), decimals |-> Decimals(numStr)]

\* The loop of Lexer::readNumber.
RECURSIVE ReadNumberChars(_, _, _)
ReadNumberChars(L, numStr, hasDot) ==
    IF L.currentChar # NUL /\ (isdigit(L.currentChar) \/ L.currentChar = ".")
    THEN IF L.currentChar = "." /\ hasDot
         THEN Failed(L, RuntimeError("Invalid number format: multiple decimal points"))
         ELSE ReadNumberChars(advance(L), Append(numStr, L.currentChar),
                              hasDot \/ L.currentChar = ".")
    ELSE Read(L, numStr)

\* Lexer::readNumber after its loop.
NumberRead(r) ==
    IF r.err.kind # "none" THEN r
    ELSE IF r.str = <<>> \/ r.str[Len(r.str)] = "."
    THEN Failed(r.lexer,
                RuntimeError("Invalid number format: number cannot end with decimal point"))
    ELSE IF r.str[1] = "."
    THEN Failed(r.lexer,
                RuntimeError("Invalid number format: number cannot start with decimal point"))
    ELSE r

readNumber(L) == NumberRead(ReadNumberChars(L, <<>>, FALSE))

\* Lexer::readIdentifier.
RECURSIVE ReadIdentifierChars(_, _)
ReadIdentifierChars(L, identifier) ==
    IF L.currentChar # NUL
       /\ (isalnum(L.currentChar) \/ L.currentChar = "_" \/ L.currentChar \in HighBytes)
    THEN ReadIdentifierChars(advance(L), Append(identifier, L.currentChar))
    ELSE Read(L, identifier)

readIdentifier(L) == ReadIdentifierChars(L, <<>>)

\* The character an escape sequence of a string literal stands for.
Escapes == {"n", "t", "r", "\\", "\""}
Unescaped(c) ==
    CASE c = "n" -> "\n"
      [] c = "t" -> "\t"
      [] c = "r" -> "\r"
      [] OTHER -> c

RECURSIVE ReadStringChars(_, _)

\* Lexer::readString taking the character after a backslash as it is,
\* whichever it is.
ReadEscapeOfAnything(L, str) ==
    IF L.currentChar \in {NUL, "\n", "\r"}
    THEN Failed(L, ParseError(<<"Unterminated string literal">>, currentLocation(L)))
    ELSE ReadStringChars(advance(L), Append(str, Unescaped(L.currentChar)))

\* Lexer::readString after the backslash of an escape sequence.
ReadEscape(L, str) ==
    IF L.currentChar \in {NUL, "\n", "\r"}
    THEN Failed(L, ParseError(<<"Unterminated string literal">>, currentLocation(L)))
    ELSE IF L.currentChar \in Escapes
    THEN ReadStringChars(advance(L), Append(str, Unescaped(L.currentChar)))
    ELSE Failed(L, ParseError(<<"Invalid escape sequence in string literal">>,
                              currentLocation(L)))

\* The loop of Lexer::readString, and the closing quote.
ReadStringChars(L, str) ==
    IF L.currentChar \in {NUL, "\n", "\r"}
    THEN Failed(L, ParseError(<<"Unterminated string literal">>, currentLocation(L)))
    ELSE IF L.currentChar = "\"" THEN Read(advance(L), str)
    ELSE IF L.currentChar = "\\" THEN ReadEscape(advance(L), str)
    ELSE ReadStringChars(advance(L), Append(str, L.currentChar))

readString(L) == ReadStringChars(advance(L), <<>>)

\* What Lexer::getNextToken returns: the lexer after it and the token, or
\* the lexer as it stands and the exception thrown.
NoToken == Token("none", "", 0, SourceRange(DefaultLoc, DefaultLoc))
Returned(L, tok) == [lexer |-> L, token |-> tok, err |-> NoError]
Thrown(L, e) == [lexer |-> L, token |-> NoToken, err |-> e]

\* Lexer::handleKeywordOrIdentifier.
handleKeywordOrIdentifier(identifier, r) ==
    IF identifier = "print" THEN Token("TOK_PRINT", identifier, 0, r)
    ELSE IF identifier = "if" THEN Token("TOK_IF", identifier, 0, r)
    ELSE IF identifier = "else" THEN Token("TOK_ELSE", identifier, 0, r)
    ELSE IF identifier = "while" THEN Token("TOK_WHILE", identifier, 0, r)
    ELSE Token("TOK_IDENTIFIER", identifier, 0, r)

\* Lexer::handleOperator taking the end of a two-character operator before
\* it has consumed the '='.
WithEqualsEndingEarly(L, ch, curStart) ==
    IF L.currentChar = "="
    THEN Returned(advance(L),
                  Token(ch \o "=", ch \o "=", 0, SourceRange(curStart, currentLocation(L))))
    ELSE IF ch = "!" THEN Thrown(L, RuntimeError("Unknown character: !"))
    ELSE Returned(L, Token(ch, ch, 0, SourceRange(curStart, currentLocation(L))))

\* Lexer::handleOperator after its advance(), on an operator that may be
\* followed by '='. The type of an operator token is its spelling.
WithEquals(L, ch, curStart) ==
    IF L.currentChar = "="
    THEN Returned(advance(L),
                  Token(ch \o "=", ch \o "=", 0,
                        SourceRange(curStart, currentLocation(advance(L)))))
    ELSE IF ch = "!" THEN Thrown(L, RuntimeError("Unknown character: !"))
    ELSE Returned(L, Token(ch, ch, 0, SourceRange(curStart, currentLocation(L))))

\* Lexer::handleOperator after its advance().
Operator(L, ch, curStart) ==
    IF ch \in {"+", "-", "*", "/", "(", ")", "{", "}", ";", ","}
    THEN Returned(L, Token(ch, ch, 0, SourceRange(curStart, currentLocation(L))))
    ELSE IF ch \in {"=", ">", "<", "!"} THEN WithEquals(L, ch, curStart)
    ELSE Thrown(L, RuntimeError("Unknown character: " \o ch))

handleOperator(L, ch, startLoc) == Operator(advance(L), ch, startLoc)

\* std::to_string of the double read from numStr: six decimals.
RECURSIVE SixDecimals(_)
SixDecimals(decimals) ==
    IF Len(decimals) >= 6 THEN SubSeq(decimals, 1, 6)
    ELSE SixDecimals(Append(decimals, "0"))

to_string(numStr) ==
    ToString(Whole(numStr)) \o "." \o Text(SixDecimals(Decimals(numStr)))

\* Lexer::getNextToken after readNumber, readIdentifier and readString.
NumberToken(startLoc, r) ==
    IF r.err.kind # "none" THEN Thrown(r.lexer, r.err)
    ELSE Returned(r.lexer,
                  Token("TOK_NUMBER", to_string(r.str), stod(r.str),
                        SourceRange(startLoc, currentLocation(r.lexer))))

IdentifierToken(startLoc, r) ==
    Returned(r.lexer,
             handleKeywordOrIdentifier(Text(r.str),
                                       SourceRange(startLoc, currentLocation(r.lexer))))

StringToken(startLoc, r) ==
    IF r.err.kind # "none"
    THEN Thrown(r.lexer, ParseError(r.err.what, currentLocation(r.lexer)))
    ELSE Returned(r.lexer,
                  Token("TOK_STRING", r.str, 0,
                        SourceRange(startLoc, currentLocation(r.lexer))))

\* The loop of Lexer::getNextToken over white space and comments.
RECURSIVE SkipToToken(_)
AfterWhitespace(L) ==
    IF L.currentChar # NUL /\ AtComment(L) THEN SkipToToken(skipComment(L)) ELSE L

SkipToToken(L) == AfterWhitespace(skipWhitespace(L))

\* Lexer::getNextToken from the first character of the token.
ReadToken(L) ==
    IF L.currentChar = NUL
    THEN Returned(L, Token("TOK_EOF", "", 0,
                           SourceRange(currentLocation(L), currentLocation(L))))
    ELSE IF isdigit(L.currentChar) THEN NumberToken(currentLocation(L), readNumber(L))
    ELSE IF isalpha(L.currentChar) \/ L.currentChar = "_" \/ L.currentChar \in HighBytes
    THEN IdentifierToken(currentLocation(L), readIdentifier(L))
    ELSE IF L.currentChar = "\"" THEN StringToken(currentLocation(L), readString(L))
    ELSE handleOperator(L, L.currentChar, currentLocation(L))

getNextToken(L) == ReadToken(SkipToToken(L))

\* The tokens a lexer delivers call after call, up to TOK_EOF or to the call
\* that throws, which stands in the sequence as a token that carries the
\* exception.
ThrownToken(r) ==
    [type |-> "thrown", value |-> "", numValue |-> 0,
     range |-> SourceRange(currentLocation(r.lexer), currentLocation(r.lexer)),
     err |-> r.err]

RECURSIVE Tokens(_)
TokensAfter(r) ==
    IF r.err.kind # "none" THEN <<ThrownToken(r)>>
    ELSE IF r.token.type = "TOK_EOF" THEN <<r.token>>
    ELSE <<r.token>> \o Tokens(r.lexer)

Tokens(L) == TokensAfter(getNextToken(L))

\* The parser on source t = [file, toks]: currentToken when the lexer has
\* delivered p tokens, previousToken the one before it.
Tok(t, p) == IF p < Len(t.toks) THEN t.toks[p] ELSE t.toks[Len(t.toks)]

\* Parser::Parser: binOpPrecedence, and Parser::getTokenPrecedence.
getTokenPrecedence(tok) ==
    IF tok.type \in {"==", "!=", "<", "<=", ">", ">="} THEN 5
    ELSE IF tok.type \in {"+", "-"} THEN 10
    ELSE IF tok.type \in {"*", "/"} THEN 40
    ELSE -1

\* What a parse function returns: the node and the index of the current
\* token after it, or the exception it threw and the index of the current
\* token when it threw.
Parsed(node, p) == [node |-> node, pos |-> p, err |-> NoError]
errorAt(p, msg, loc) == [node |-> NoValue, pos |-> p, err |-> ParseError(<<msg>>, loc)]
errorHere(t, p, msg) == errorAt(p, msg, Tok(t, p).range.start)

RECURSIVE parseExpression(_, _)
RECURSIVE parsePrimary(_, _)
RECURSIVE parseBinOpRHS(_, _, _)

\* Parser::parseParenExpr after the expression, v.
ParenClose(t, v) ==
    IF v.err.kind # "none" THEN v
    ELSE IF Tok(t, v.pos).type # ")" THEN errorHere(t, v.pos, "Expected ')'")
    ELSE Parsed(v.node, v.pos + 1)

parseParenExpr(t, p) == ParenClose(t, parseExpression(t, p + 1))

parseNumberExpr(t, p) == Parsed(NumberExprAST(Tok(t, p).numValue, Tok(t, p).range.start), p + 1)

parseIdentifierExpr(t, p) == Parsed(VariableExprAST(Tok(t, p).value, Tok(t, p).range.start), p + 1)

\* Parser::parseStringLiteral: the location is read after getNextToken.
parseStringLiteral(t, p) ==
    Parsed(StringLiteralAST(Tok(t, p).value, Tok(t, p + 1).range.start), p + 1)

\* Parser::parseUnaryExpr after the operand of a minus at opPos.
Negated(t, opPos, operand) ==
    IF operand.err.kind # "none" THEN operand
    ELSE Parsed(UnaryExprAST("-", operand.node, Tok(t, opPos).range.start), operand.pos)

parseUnaryExpr(t, p) ==
    IF Tok(t, p).type = "-" THEN Negated(t, p, parsePrimary(t, p + 1))
    ELSE parsePrimary(t, p)

parsePrimary(t, p) ==
    CASE Tok(t, p).type = "TOK_IDENTIFIER" -> parseIdentifierExpr(t, p)
      [] Tok(t, p).type = "TOK_NUMBER" -> parseNumberExpr(t, p)
      [] Tok(t, p).type = "TOK_STRING" -> parseStringLiteral(t, p)
      [] Tok(t, p).type = "(" -> parseParenExpr(t, p)
      [] Tok(t, p).type = "-" -> parseUnaryExpr(t, p)
      [] OTHER -> errorHere(t, p, "Unknown token when expecting an expression")

\* Parser::parseBinOpRHS: the operator at opPos joins lhs and rhs, and the
\* loop goes on.
BinOpJoin(exprPrec, lhs, t, opPos, rhs) ==
    IF rhs.err.kind # "none" THEN rhs
    ELSE parseBinOpRHS(exprPrec,
                       Parsed(BinaryExprAST(Tok(t, opPos).type, lhs.node, rhs.node,
                                            Tok(t, opPos).range.start),
                              rhs.pos),
                       t)

\* Parser::parseBinOpRHS giving rhs also to a following operator of the same
\* precedence.
BinOpRightAssociative(exprPrec, lhs, t, opPos, rhs) ==
    IF rhs.err.kind # "none" THEN rhs
    ELSE IF getTokenPrecedence(Tok(t, opPos)) <= getTokenPrecedence(Tok(t, rhs.pos))
    THEN BinOpJoin(exprPrec, lhs, t, opPos,
                   parseBinOpRHS(getTokenPrecedence(Tok(t, opPos)), rhs, t))
    ELSE BinOpJoin(exprPrec, lhs, t, opPos, rhs)

\* Parser::parseBinOpRHS after the unary expression right of the operator
\* at opPos, rhs: a tighter operator that follows takes rhs as its left side.
BinOpRight(exprPrec, lhs, t, opPos, rhs) ==
    IF rhs.err.kind # "none" THEN rhs
    ELSE IF getTokenPrecedence(Tok(t, opPos)) < getTokenPrecedence(Tok(t, rhs.pos))
    THEN BinOpJoin(exprPrec, lhs, t, opPos,
                   parseBinOpRHS(getTokenPrecedence(Tok(t, opPos)) + 1, rhs, t))
    ELSE BinOpJoin(exprPrec, lhs, t, opPos, rhs)

parseBinOpRHS(exprPrec, lhs, t) ==
    IF lhs.err.kind # "none" THEN lhs
    ELSE IF getTokenPrecedence(Tok(t, lhs.pos)) < exprPrec THEN lhs
    ELSE BinOpRight(exprPrec, lhs, t, lhs.pos, parseUnaryExpr(t, lhs.pos + 1))

\* Parser::parseAssignment after the right-hand side, rhs, of an assignment
\* to the variable lhs.
AssignmentOf(t, lhs, rhs) ==
    IF rhs.err.kind # "none" THEN rhs
    ELSE Parsed(AssignmentExprAST(lhs.node.name, rhs.node, FALSE,
                                  Tok(t, lhs.pos - 1).range.start),
                rhs.pos)

\* Parser::parseAssignment after its unary expression, lhs.
AssignmentAfter(t, lhs) ==
    IF lhs.err.kind # "none" THEN lhs
    ELSE IF Tok(t, lhs.pos).type = "="
    THEN IF lhs.node.k # "var"
         THEN errorAt(lhs.pos, "Invalid assignment target", Tok(t, lhs.pos - 1).range.start)
         ELSE AssignmentOf(t, lhs, parseExpression(t, lhs.pos + 1))
    ELSE parseBinOpRHS(0, lhs, t)

parseAssignment(t, p) == AssignmentAfter(t, parseUnaryExpr(t, p))

parseExpression(t, p) == parseAssignment(t, p)

\* Parser::parsePrintStatement at the ";" that ends it; p0 is the index of
\* the print token.
PrintEnd(t, p0, first, args, p) ==
    IF Tok(t, p).type # ";"
    THEN errorAt(p, "Expected ';' after print statement", Tok(t, p - 1).range.end)
    ELSE Parsed(PrintStmtAST(first, args, Tok(t, p0).range.start), p + 1)

RECURSIVE PrintArguments(_, _, _, _, _)

\* Parser::parsePrintStatement after one more argument, arg.
PrintArgument(t, p0, first, args, arg) ==
    IF arg.err.kind # "none" THEN arg
    ELSE PrintArguments(t, p0, first, Append(args, arg.node), arg.pos)

\* The loop over the arguments that follow a comma.
PrintArguments(t, p0, first, args, p) ==
    IF Tok(t, p).type = ","
    THEN PrintArgument(t, p0, first, args, parseExpression(t, p + 1))
    ELSE PrintEnd(t, p0, first, args, p)

\* Parser::parsePrintStatement after its first expression.
PrintFirst(t, p0, first) ==
    IF first.err.kind # "none" THEN first
    ELSE PrintArguments(t, p0, first.node, <<>>, first.pos)

parsePrintStatement(t, p) == PrintFirst(t, p, parseExpression(t, p + 1))

\* The TOK_MUT branch of Parser::parseStatement after the value.
MutDeclarationOf(t, namePos, value) ==
    IF value.err.kind # "none" THEN value
    ELSE IF Tok(t, value.pos).type # ";"
    THEN errorAt(value.pos, "Expected ';' after mutable variable declaration",
                 Tok(t, value.pos - 1).range.end)
    ELSE Parsed(AssignmentExprAST(Tok(t, namePos).value, value.node, TRUE,
                                  Tok(t, namePos).range.start),
                value.pos + 1)

\* The TOK_MUT branch of Parser::parseStatement.
parseMutDeclaration(t, p) ==
    IF Tok(t, p + 1).type # "TOK_IDENTIFIER"
    THEN errorHere(t, p + 1, "Expected variable name after 'mut'")
    ELSE IF Tok(t, p + 2).type # "="
    THEN errorHere(t, p + 2, "Expected '=' after variable name in mutable declaration")
    ELSE MutDeclarationOf(t, p + 1, parseExpression(t, p + 3))

\* The default branch of Parser::parseStatement after the expression.
ExpressionStatement(t, expr) ==
    IF expr.err.kind # "none" THEN expr
    ELSE IF Tok(t, expr.pos).type # ";"
    THEN errorAt(expr.pos, "Expected ';' after expression statement",
                 Tok(t, expr.pos - 1).range.end)
    ELSE Parsed(expr.node, expr.pos + 1)

\* Parser::parseStatement on a statement that is no if and no while.
parseStatement(t, p) ==
    CASE Tok(t, p).type = "TOK_PRINT" -> parsePrintStatement(t, p)
      [] Tok(t, p).type = "TOK_MUT" -> parseMutDeclaration(t, p)
      [] OTHER -> ExpressionStatement(t, parseExpression(t, p))

\* Parser::parseIfStatement and Parser::parseWhileStatement after the
\* condition, up to the "{" of parseBlock; p0 is the index of the keyword.
BlockHeader(t, p0, cond) ==
    IF cond.err.kind # "none" THEN cond
    ELSE IF Tok(t, cond.pos).type # ")"
    THEN errorHere(t, cond.pos,
                   IF Tok(t, p0).type = "TOK_IF" THEN "Expected ')' after if condition"
                   ELSE "Expected ')' after while condition")
    ELSE IF Tok(t, cond.pos + 1).type # "{" THEN errorHere(t, cond.pos + 1, "Expected '{'")
    ELSE Parsed(IF Tok(t, p0).type = "TOK_IF"
                THEN IfStmtAST(cond.node, Tok(t, p0).range.start)
                ELSE WhileStmtAST(cond.node, Tok(t, p0).range.start),
                cond.pos + 2)

parseBlockStatement(t, p) ==
    IF Tok(t, p + 1).type # "("
    THEN errorHere(t, p + 1,
                   IF Tok(t, p).type = "TOK_IF" THEN "Expected '(' after 'if'"
                   ELSE "Expected '(' after 'while'")
    ELSE BlockHeader(t, p, parseExpression(t, p + 2))

\* parseBlockEnd returning from a while block without consuming its "}".
parseBlockEndLeavingBrace(t, p, top) ==
    IF top = "while" THEN Parsed(EndWhileItem, p)
    ELSE IF top = "else" THEN Parsed(EndIfItem, p + 1)
    ELSE IF Tok(t, p + 1).type # "TOK_ELSE"
    THEN errorHere(t, p + 1, "Expected 'else' after 'if' statement")
    ELSE IF Tok(t, p + 2).type # "{" THEN errorHere(t, p + 2, "Expected '{'")
    ELSE Parsed(ElseItem, p + 3)

\* Parser::parseBlock at the "}" of a block of kind top: after the then
\* block parseIfStatement expects else and the "{" of the else block.
parseBlockEnd(t, p, top) ==
    IF top # "then"
    THEN Parsed(IF top = "else" THEN EndIfItem ELSE EndWhileItem, p + 1)
    ELSE IF Tok(t, p + 1).type # "TOK_ELSE"
    THEN errorHere(t, p + 1, "Expected 'else' after 'if' statement")
    ELSE IF Tok(t, p + 2).type # "{" THEN errorHere(t, p + 2, "Expected '{'")
    ELSE Parsed(ElseItem, p + 3)

\* Parser::getNextToken threw in the statement that ended as r: the current
\* token of r is the call of the lexer that throws.
LexerThrew(t, r) == Tok(t, r.pos).type = "thrown"

\* The handlers of Parser::parseProgram around parseStatement, which ended
\* as r: a ParseError passes, any other exception of the lexer becomes a
\* ParseError at the start of currentToken, the last token delivered.
parseProgramCatch(t, r) ==
    IF ~LexerThrew(t, r) THEN r
    ELSE IF Tok(t, r.pos).err.kind = "ParseError"
    THEN [node |-> NoValue, pos |-> r.pos, err |-> Tok(t, r.pos).err]
    ELSE errorAt(r.pos, Tok(t, r.pos).err.what[1], Tok(t, Len(t.toks) - 1).range.start)

\* The source texts: the program that computes 5!, the same program without
\* its mut, a program that reassigns, a program with an if, the texts below,
\* and every text that is the beginning of one of them.
Factorial ==
    <<"m", "u", "t", " ", "n", " ", "=", " ", "5", ";", " ", "r", "e", "s",
      "u", "l", "t", " ", "=", " ", "1", ";", " ", "w", "h", "i", "l", "e",
      " ", "(", "n", " ", ">", " ", "0", ")", " ", "{", " ", "r", "e", "s",
      "u", "l", "t", " ", "=", " ", "r", "e", "s", "u", "l", "t", " ", "*",
      " ", "n", ";", " ", "n", " ", "=", " ", "n", " ", "-", " ", "1", ";",
      " ", "}", " ", "p", "r", "i", "n", "t", " ", "r", "e", "s", "u", "l",
      "t", ";">>

WithoutMut == SubSeq(Factorial, 5, Len(Factorial))

Reassigning ==
    <<"r", "e", "s", "u", "l", "t", " ", "=", " ", "1", ";", " ", "r", "e",
      "s", "u", "l", "t", " ", "=", " ", "r", "e", "s", "u", "l", "t", " ",
      "*", " ", "5", ";", " ", "p", "r", "i", "n", "t", " ", "r", "e", "s",
      "u", "l", "t", ";">>

Branching ==
    <<"n", " ", "=", " ", "1", ";", " ", "i", "f", " ", "(", "n", " ", ">",
      " ", "0", ")", " ", "{", " ", "p", "r", "i", "n", "t", " ", "n", " ",
      "*", " ", "1", "2", ";", " ", "}", " ", "e", "l", "s", "e", " ", "{",
      " ", "p", "r", "i", "n", "t", " ", "\"", "s", "\"", ";", " ", "p", "r",
      "i", "n", "t", " ", "-", "n", ";", " ", "}">>

\* Texts with a block that is a statement of its own.
BlockAtTopLevel ==
    <<"x", " ", "=", " ", "1", ";", " ", "{", " ", "x", " ", "=", " ", "2",
      ";", " ", "p", "r", "i", "n", "t", " ", "x", ";", " ", "}", " ", "p",
      "r", "i", "n", "t", " ", "x", ";">>

BlockInBlock ==
    <<"w", "h", "i", "l", "e", " ", "(", "x", ")", " ", "{", " ", "{", " ",
      "p", "r", "i", "n", "t", " ", "x", ";", " ", "}", " ", "}">>

\* Texts the lexer fails on, at the first token or at a later one.
UnknownFirst ==
    <<"@">>

NumberFirst ==
    <<"1", ".">>

NumberTwoDots ==
    <<"x", " ", "=", " ", "1", ".", "2", ".", "3", ";">>

UnknownLater ==
    <<"x", " ", "=", " ", "1", " ", "@", " ", "2", ";">>

LoneBang ==
    <<"x", " ", "=", " ", "!", "x", ";">>

BadEscape ==
    <<"p", "r", "i", "n", "t", " ", "\"", "\\", "q", "\"", ";">>

Programs ==
    {Factorial, WithoutMut, Reassigning, Branching,
     BlockAtTopLevel, BlockInBlock,
     UnknownFirst, NumberFirst, NumberTwoDots, UnknownLater, LoneBang, BadEscape}

\* Expression statements: up to MaxOperators binary operators between
\* operands that are the digits 1, 2, ... in this order, each of them negated
\* or not, and the three expressions of the parser's tests.
MaxOperators == 3
BinaryOperators == {<<"+">>, <<"-">>, <<"*">>, <<"/">>, <<"<">>, <<"=", "=">>}

Operand(i, negated) == IF negated THEN <<"-", ToString(i)>> ELSE <<ToString(i)>>

RECURSIVE ExpressionText(_, _, _)
ExpressionText(ops, negated, n) ==
    IF n = 0 THEN Operand(1, negated[1])
    ELSE ExpressionText(ops, negated, n - 1) \o <<" ">> \o ops[n] \o <<" ">>
         \o Operand(n + 1, negated[n + 1])

MixedLevels ==
    <<"1", " ", "+", " ", "2", " ", "*", " ", "3", " ", "=", "=", " ", "7",
      ";">>

ChainedComparison ==
    <<"1", " ", "<", " ", "2", " ", "<", " ", "3", ";">>

NegatedFactor ==
    <<"-", "2", " ", "*", " ", "3", ";">>

ExpressionStatements ==
    {ExpressionText(ops, negated, Len(ops)) \o <<";">> :
        ops \in UNION {[1..n -> BinaryOperators] : n \in 1..MaxOperators},
        negated \in [1..(MaxOperators + 1) -> BOOLEAN]}
    \cup {MixedLevels, ChainedComparison, NegatedFactor}

\* Statements on the first line of a text whose ";" is missing, and what
\* follows them: nothing, or a statement on the same or on a later line.
PrintNumber ==
    <<"p", "r", "i", "n", "t", " ", "4", "2">>

PrintTwo ==
    <<"p", "r", "i", "n", "t", " ", "\"", "s", "\"", ",", " ", "x">>

AssignOne ==
    <<"x", " ", "=", " ", "1">>

SumStatement ==
    <<"x", " ", "+", " ", "1">>

MutWithoutSemicolon ==
    <<"m", "u", "t", " ", "x", " ", "=", " ", "5">>

WithoutSemicolon ==
    {PrintNumber, PrintTwo, AssignOne, SumStatement, MutWithoutSemicolon}

SameLine ==
    <<" ", "y", " ", "=", " ", "2", ";">>

NextLine ==
    <<"\n", "y", " ", "=", " ", "2", ";">>

LaterLine ==
    <<"\r", "\n", "\n", " ", " ", "p", "r", "i", "n", "t", " ", "1", ";">>

Followers == {<<>>, SameLine, NextLine, LaterLine}

MissingSemicolons == {s \o f : s \in WithoutSemicolon, f \in Followers}

\* Assignments to what is no variable, at the beginning of a text or after
\* a statement.
NumberTarget ==
    <<"1", "2", "3">>

ParenTarget ==
    <<"(", "x", ")">>

SumTarget ==
    <<"(", "x", " ", "+", " ", "1", ")">>

StringTarget ==
    <<"\"", "h", "e", "l", "l", "o", "\"">>

NegatedTarget ==
    <<"-", "5">>

InvalidTargets == {NumberTarget, ParenTarget, SumTarget, StringTarget, NegatedTarget}

Statement ==
    <<"y", " ", "=", " ", "1", ";", " ">>

StatementAndLine ==
    <<"y", " ", "=", " ", "1", ";", "\n", " ", " ">>

Before == {<<>>, Statement, StatementAndLine}

IsAssigned ==
    <<" ", "=", " ", "4", "2", ";">>

InvalidAssignments == {b \o target \o IsAssigned : b \in Before, target \in InvalidTargets}

\* Sources the checker rejects: an unresolved name; an immutable
\* reassignment after a sum, and after a comment line with a "+"; a string
\* operand of "+", of "*" after a sum, and of a unary minus.
UnresolvedRead ==
    <<"p", "r", "i", "n", "t", " ", "y", ";">>

PlusElsewhere ==
    <<"y", " ", "=", " ", "1", " ", "+", " ", "2", ";", " ", "x", " ", "=",
      " ", "1", ";", " ", "x", " ", "=", " ", "2", ";">>

PlusInComment ==
    <<"/", "/", " ", "a", " ", "+", " ", "b", "\n", "x", " ", "=", " ", "1",
      ";", " ", "x", " ", "=", " ", "2", ";">>

StringPlus ==
    <<"x", " ", "=", " ", "\"", "a", "\"", " ", "+", " ", "1", ";">>

StringAfterSum ==
    <<"y", " ", "=", " ", "1", " ", "+", " ", "2", ";", " ", "x", " ", "=",
      " ", "y", " ", "*", " ", "\"", "a", "\"", ";">>

NegatedString ==
    <<"p", "r", "i", "n", "t", " ", "-", "\"", "a", "\"", ";">>

CheckerFailures ==
    {UnresolvedRead, PlusElsewhere, PlusInComment, StringPlus, StringAfterSum, NegatedString}

\* Sources with nested control flow: an if and a while inside the branches
\* of an if.
NestedBranches ==
    <<"i", "f", " ", "(", "1", ")", " ", "{", " ", "i", "f", " ", "(", "2",
      ")", " ", "{", " ", "x", " ", "=", " ", "1", ";", " ", "}", " ", "e",
      "l", "s", "e", " ", "{", " ", "x", " ", "=", " ", "2", ";", " ", "}",
      " ", "}", " ", "e", "l", "s", "e", " ", "{", " ", "w", "h", "i", "l",
      "e", " ", "(", "0", ")", " ", "{", " ", "x", " ", "=", " ", "3", ";",
      " ", "}", " ", "}">>

ControlFlow == {NestedBranches}

\* A statement without its ";" on the second line of a source, after each of
\* the three line terminators, and on the first line before a "\r\n".
AfterNewline ==
    <<"x", " ", "=", " ", "1", ";", "\n", "p", "r", "i", "n", "t", " ", "4",
      "2">>

AfterCarriageReturnNewline ==
    <<"x", " ", "=", " ", "1", ";", "\r", "\n", "p", "r", "i", "n", "t", " ",
      "4", "2">>

AfterCarriageReturn ==
    <<"x", " ", "=", " ", "1", ";", "\r", "p", "r", "i", "n", "t", " ", "4",
      "2">>

BeforeCarriageReturnNewline ==
    <<"p", "r", "i", "n", "t", " ", "4", "2", "\r", "\n", "x", " ", "=", " ",
      "1", ";">>

LineTerminators ==
    {AfterNewline, AfterCarriageReturnNewline, AfterCarriageReturn, BeforeCarriageReturnNewline}

\* Assignments inside other expressions: the right-hand side of an
\* assignment, a parenthesised operand, a print format, a print argument, the
\* conditions of an if and of a while.
ChainedAssignment ==
    <<"x", " ", "=", " ", "1", ";", " ", "y", " ", "=", " ", "x", " ", "=",
      " ", "2", ";">>

ParenthesisedAssignment ==
    <<"y", " ", "=", " ", "(", "x", " ", "=", " ", "z", ")", " ", "+", " ",
      "1", ";">>

PrintedAssignment ==
    <<"p", "r", "i", "n", "t", " ", "x", " ", "=", " ", "y", ";">>

PrintedStringAssignment ==
    <<"x", " ", "=", " ", "1", ";", " ", "p", "r", "i", "n", "t", " ", "\"",
      "%", "f", "\"", ",", " ", "x", " ", "=", " ", "-", "\"", "a", "\"", ";">>

IfAssignment ==
    <<"x", " ", "=", " ", "1", ";", " ", "i", "f", " ", "(", "x", " ", "=",
      " ", "2", ")", " ", "{", " ", "}", " ", "e", "l", "s", "e", " ", "{",
      " ", "}">>

WhileAssignment ==
    <<"w", "h", "i", "l", "e", " ", "(", "x", " ", "=", " ", "y", ")", " ",
      "{", " ", "}">>

NestedAssignmentTexts ==
    {ChainedAssignment, ParenthesisedAssignment, PrintedAssignment,
     PrintedStringAssignment, IfAssignment, WhileAssignment}

Sources ==
    UNION {{SubSeq(P, 1, n) : n \in 0..Len(P)} : P \in Programs}
    \cup ExpressionStatements \cup MissingSemicolons \cup InvalidAssignments
    \cup CheckerFailures \cup ControlFlow \cup LineTerminators
    \cup NestedAssignmentTexts

\* The source the parser reads and its current token.
Source ==
    [file |-> Text(options.inputFile),
     toks |-> Tokens(Lexer(input.text, Text(options.inputFile)))]
CurrentToken == Tok(Source, input.pos)

\* main() on one of the source texts.
InitSource ==
    /\ argv \in ArgVectors
    /\ input \in {[text |-> src, pos |-> 0] : src \in Sources}
    /\ lexer = NoLexer
    /\ pc = "main"
    /\ options = NoOptions
    /\ prog = <<>>
    /\ open = <<>>
    /\ tcScopes = <<>>
    /\ tcPos = 0
    /\ tcBefore = <<>>
    /\ cg = CgInit
    /\ cgPos = 0
    /\ cgBefore = <<>>
    /\ err = NoError
    /\ stderr = NoDiagnostic
    /\ outFile = FALSE
    /\ exitCode = -1

\* compileSource: Parser::Parser, whose getNextToken stands outside the
\* handlers of parseProgram.
NewParser ==
    /\ pc = "parse"
    /\ input.pos = 0
    /\ IF Tok(Source, 1).type = "thrown"
       THEN /\ err' = Tok(Source, 1).err
            /\ pc' = "catch"
            /\ input' = input
       ELSE /\ input' = [input EXCEPT !.pos = 1]
            /\ UNCHANGED <<pc, err>>
    /\ UNCHANGED <<argv, lexer, options, prog, open, tcScopes, tcPos, tcBefore, cg, cgPos,
                   cgBefore, stderr, outFile, exitCode>>

\* parseProgram or parseBlock: parseStatement on a statement that is no if
\* and no while.
ParseSourceStatement ==
    /\ pc = "parse"
    /\ input.pos > 0
    /\ CurrentToken.type \notin {"TOK_EOF", "TOK_IF", "TOK_WHILE"}
    /\ ~(CurrentToken.type = "}" /\ open # <<>>)
    /\ \E r \in {parseProgramCatch(Source, parseStatement(Source, input.pos))} :
          IF r.err.kind = "none"
          THEN /\ prog' = Append(prog, r.node)
               /\ input' = [input EXCEPT !.pos = r.pos]
               /\ UNCHANGED <<pc, err>>
          ELSE /\ err' = r.err
               /\ pc' = "catch"
               /\ UNCHANGED <<prog, input>>
    /\ UNCHANGED <<argv, lexer, options, open, tcScopes, tcPos, tcBefore, cg, cgPos, cgBefore,
                   stderr, outFile, exitCode>>

\* parseIfStatement / parseWhileStatement up to the "{" of the first block.
ParseSourceOpen ==
    /\ pc = "parse"
    /\ input.pos > 0
    /\ CurrentToken.type \in {"TOK_IF", "TOK_WHILE"}
    /\ \E r \in {parseProgramCatch(Source, parseBlockStatement(Source, input.pos))} :
          IF r.err.kind = "none"
          THEN /\ prog' = Append(prog, r.node)
               /\ open' = Append(open, IF r.node.k = "if" THEN "then" ELSE "while")
               /\ input' = [input EXCEPT !.pos = r.pos]
               /\ UNCHANGED <<pc, err>>
          ELSE /\ err' = r.err
               /\ pc' = "catch"
               /\ UNCHANGED <<prog, open, input>>
    /\ UNCHANGED <<argv, lexer, options, tcScopes, tcPos, tcBefore, cg, cgPos, cgBefore,
                   stderr, outFile, exitCode>>

\* parseBlock at "}".
ParseSourceClose ==
    /\ pc = "parse"
    /\ input.pos > 0
    /\ CurrentToken.type = "}"
    /\ open # <<>>
    /\ \E r \in {parseProgramCatch(Source,
                                   parseBlockEnd(Source, input.pos, open[Len(open)]))} :
          IF r.err.kind = "none"
          THEN /\ prog' = Append(prog, r.node)
               /\ open' = IF r.node.k = "else" THEN [open EXCEPT ![Len(open)] = "else"]
                          ELSE SubSeq(open, 1, Len(open) - 1)
               /\ input' = [input EXCEPT !.pos = r.pos]
               /\ UNCHANGED <<pc, err>>
          ELSE /\ err' = r.err
               /\ pc' = "catch"
               /\ UNCHANGED <<prog, open, input>>
    /\ UNCHANGED <<argv, lexer, options, tcScopes, tcPos, tcBefore, cg, cgPos, cgBefore,
                   stderr, outFile, exitCode>>

\* TOK_EOF: parseBlock misses its "}", or parseProgram returns and typeCheck
\* begins with the global scope.
ParseSourceEnd ==
    /\ pc = "parse"
    /\ input.pos > 0
    /\ CurrentToken.type = "TOK_EOF"
    /\ IF open # <<>>
       THEN /\ err' = errorHere(Source, input.pos, "Expected '}'").err
            /\ pc' = "catch"
            /\ UNCHANGED <<tcScopes, tcPos>>
       ELSE /\ tcScopes' = TcEnterScope(<<>>)
            /\ tcPos' = 1
            /\ pc' = "check"
            /\ err' = err
    /\ UNCHANGED <<argv, lexer, input, options, prog, open, tcBefore, cg, cgPos, cgBefore,
                   stderr, outFile, exitCode>>

NextSource ==
    \/ ParseCommandLine
    \/ ReadFile
    \/ SetupLLVMFunction
    \/ NewParser
    \/ ParseSourceStatement
    \/ ParseSourceOpen
    \/ ParseSourceClose
    \/ ParseSourceEnd
    \/ TypeCheckNode
    \/ RethrowTypeError
    \/ CodegenBegin
    \/ CodegenNode
    \/ CreateRet
    \/ SaveIRToFile
    \/ Catch

SpecSource == InitSource /\ [][NextSource]_vars

----------------------------------------------------------------------------
(* A Lexer on its own: getNextToken called until TOK_EOF or an exception    *)

\* The texts a Lexer is constructed on: every text of at most MaxText
\* characters of Alphabet, and the texts of the lexer's tests.
MaxText == 4
Alphabet ==
    {"x", "n", "1", ".", " ", "\n", "\r", "\t", "\"", "\\", "=", "!", "/", "@", "<c3>"}

MutDeclaration ==
    <<"m", "u", "t", " ", "x", " ", "=", " ", "5", ";">>
HelloWorld ==
    <<"\"", "h", "e", "l", "l", "o", "\\", "n", "w", "o", "r", "l", "d", "\"">>
OnlyWhitespace ==
    <<" ", " ", " ", "\t", "\n", " ", " ">>
CarriageReturn ==
    <<"x", "\r", "\n", "y">>
Comparison ==
    <<"x", " ", ">", "=", " ", "y">>
AllKeywords ==
    <<"p", "r", "i", "n", "t", " ", "i", "f", " ", "e", "l", "s", "e", " ",
      "w", "h", "i", "l", "e", " ", "m", "u", "t">>

LexerTests ==
    {MutDeclaration, HelloWorld, OnlyWhitespace, CarriageReturn, Comparison, AllKeywords}

Texts == UNION {[1..n -> Alphabet] : n \in 0..MaxText} \cup LexerTests

InitLexer ==
    /\ lexer \in {[object |-> Lexer(text, "test.k"), before |-> Lexer(text, "test.k"),
                   returned |-> <<>>, thrown |-> NoError] : text \in Texts}
    /\ argv = <<>>
    /\ input = NoInput
    /\ pc = "main"
    /\ options = NoOptions
    /\ prog = <<>>
    /\ open = <<>>
    /\ tcScopes = <<>>
    /\ tcPos = 0
    /\ tcBefore = <<>>
    /\ cg = CgInit
    /\ cgPos = 0
    /\ cgBefore = <<>>
    /\ err = NoError
    /\ stderr = NoDiagnostic
    /\ outFile = FALSE
    /\ exitCode = -1

\* The lexer has returned TOK_EOF.
AtEOF == lexer.returned # <<>> /\ lexer.returned[Len(lexer.returned)].type = "TOK_EOF"

\* One call of Lexer::getNextToken, up to the first TOK_EOF or exception.
GetNextToken ==
    /\ lexer.thrown.kind = "none"
    /\ ~AtEOF
    /\ \E r \in {getNextToken(lexer.object)} :
          lexer' = [object |-> r.lexer,
                    before |-> lexer.object,
                    returned |-> IF r.err.kind = "none"
                                 THEN Append(lexer.returned, r.token)
                                 ELSE lexer.returned,
                    thrown |-> r.err]
    /\ UNCHANGED <<argv, input, pc, options, prog, open, tcScopes, tcPos, tcBefore, cg,
                   cgPos, cgBefore, err, stderr, outFile, exitCode>>

NextLexer == GetNextToken

SpecLexer == InitLexer /\ [][NextLexer]_vars

----------------------------------------------------------------------------
(* The assignment rules of the checker and of the lowering                  *)

\* typeCheckNode has just visited an item: the item, and TypeEnv::scopes as
\* they were before it.
TcStepped == pc \in {"check", "check_catch"} /\ tcBefore # <<>>
TcNode == prog[Len(tcBefore)]
TcPre == tcBefore[Len(tcBefore)]

\* codegen() has just returned from an item: the item, the CodeGen instance
\* as it was before it, and the instructions the item emitted.
CgStepped == pc = "lower" /\ cgBefore # <<>>
CgNode == prog[Len(cgBefore)]
CgPre == cgBefore[Len(cgBefore)]
CgNew == SubSeq(cg.code, CgPre.ncode + 1, Len(cg.code))

IsPlainAssignment(node) == node.k = "asg" /\ ~node.is_mut
IsMutDeclaration(node) == node.k = "asg" /\ node.is_mut

\* The innermost binding of a name in a scope stack that binds it.
Nearest(scopes, name) ==
    scopes[CHOOSE i \in 1..Len(scopes) :
              /\ name \in DOMAIN scopes[i]
              /\ \A j \in (i + 1)..Len(scopes) : name \notin DOMAIN scopes[j]][name]

Bound(scopes, name) == \E i \in 1..Len(scopes) : name \in DOMAIN scopes[i]
BoundInTop(scopes, name) == scopes # <<>> /\ name \in DOMAIN scopes[Len(scopes)]

\* The right-hand side of the assignment the checker visited is well typed.
TcRhsChecks == inferExprType(TcNode.value, TcPre).err.kind = "none"
TcRhsType == inferExprType(TcNode.value, TcPre).type

\* Two scope stacks that agree below their top scope and whose second top
\* scope is the first one with name bound to info.
DeclaredInTop(before, after, name, info) ==
    /\ Len(after) = Len(before)
    /\ \A i \in 1..(Len(before) - 1) : after[i] = before[i]
    /\ DOMAIN after[Len(after)] = DOMAIN before[Len(before)] \cup {name}
    /\ after[Len(after)][name] = info
    /\ \A n \in DOMAIN before[Len(before)] \ {name} :
          after[Len(after)][n] = before[Len(before)][n]

\* The slots the instructions of a sequence store to.
StoreSlots(code) == {code[q].slot : q \in {r \in 1..Len(code) : code[r].op = "store"}}
AllocaSlots(code) == {code[q].slot : q \in {r \in 1..Len(code) : code[r].op = "alloca"}}

C2_CrossScopeReassignment ==
    /\ (/\ TcStepped
        /\ IsPlainAssignment(TcNode)
        /\ ~BoundInTop(TcPre, TcNode.name)
        /\ Bound(TcPre, TcNode.name)
        /\ Nearest(TcPre, TcNode.name).is_mutable)
       => tcScopes = TcPre
    /\ (/\ CgStepped
        /\ IsPlainAssignment(CgNode)
        /\ ~BoundInTop(CgPre.scopes, CgNode.name)
        /\ Bound(CgPre.scopes, CgNode.name)
        /\ Nearest(CgPre.scopes, CgNode.name).is_mutable)
       => /\ cg.scopes = CgPre.scopes
          /\ cg.nalloca = CgPre.nalloca
          /\ AllocaSlots(CgNew) = {}
          /\ StoreSlots(CgNew) = {Nearest(CgPre.scopes, CgNode.name).allocaInst}
          /\ Nearest(CgPre.scopes, CgNode.name).allocaInst \in 1..CgPre.nalloca

C2_Witness ==
    /\ CgStepped
    /\ IsPlainAssignment(CgNode)
    /\ ~BoundInTop(CgPre.scopes, CgNode.name)
    /\ Bound(CgPre.scopes, CgNode.name)
    /\ Nearest(CgPre.scopes, CgNode.name).is_mutable
    /\ ~BoundInTop(tcBefore[Len(cgBefore)], CgNode.name)
    /\ Nearest(tcBefore[Len(cgBefore)], CgNode.name).is_mutable

\* An expression, and an item, that assigns to a name somewhere inside it.
RECURSIVE ExprAssigns(_, _)
ExprAssigns(e, name) ==
    CASE e.k = "asg" -> e.name = name \/ ExprAssigns(e.value, name)
      [] e.k = "un" -> ExprAssigns(e.operand, name)
      [] e.k = "bin" -> ExprAssigns(e.lhs, name) \/ ExprAssigns(e.rhs, name)
      [] OTHER -> FALSE

ItemAssigns(item, name) ==
    CASE item.k \in ExprKinds -> ExprAssigns(item, name)
      [] item.k = "print" ->
            \/ ExprAssigns(item.fmt, name)
            \/ \E q \in 1..Len(item.args) : ExprAssigns(item.args[q], name)
      [] item.k \in {"if", "while"} -> ExprAssigns(item.cond, name)
      [] OTHER -> FALSE

IsMarker(item) == item.k \in {"else", "endif", "endwhile"}

\* A statement whose first evaluation is a read of the name: print x, x = x.
ReadsFirst(item, name) ==
    \/ item.k = "print" /\ item.fmt.k = "var" /\ item.fmt.name = name
    \/ item.k = "asg" /\ item.value.k = "var" /\ item.value.name = name

\* Item i is an assignment statement without mut met while the top scope of
\* the stack does not bind its name and the nearest binding is immutable.
ShadowsIn(scopes, i) ==
    /\ IsPlainAssignment(prog[i])
    /\ ~BoundInTop(scopes, prog[i].name)
    /\ Bound(scopes, prog[i].name)
    /\ ~Nearest(scopes, prog[i].name).is_mutable

\* Items i < j of a traversal whose stack depths before each item are
\* depth: j is in the scope item i is in (no marker closes that scope in
\* between) and nothing between them assigns to the name of item i.
StillInScope(depth, i, j) ==
    /\ i < j
    /\ \A q \in (i + 1)..j : ~(IsMarker(prog[q]) /\ depth[q] = depth[i])
    /\ \A q \in (i + 1)..(j - 1) : ~ItemAssigns(prog[q], prog[i].name)

\* Items i < k < j: marker k closes the scope item i is in, and nothing
\* from k up to j assigns to the name of item i.
AfterScopeOf(depth, i, k, j) ==
    /\ i < k /\ k < j
    /\ IsMarker(prog[k]) /\ depth[k] = depth[i]
    /\ \A q \in (i + 1)..(k - 1) : ~(IsMarker(prog[q]) /\ depth[q] = depth[i])
    /\ \A q \in (k + 1)..(j - 1) : ~ItemAssigns(prog[q], prog[i].name)

TcDepths == [q \in 1..Len(tcBefore) |-> Len(tcBefore[q])]
CgDepths == [q \in 1..Len(cgBefore) |-> Len(cgBefore[q].scopes)]

\* The instructions item j emitted, j the item lowered last.
LoadsFrom(slot) == CgNew # <<>> /\ CgNew[1].op = "load" /\ CgNew[1].slot = slot

\* C3: an assignment statement x = e without mut, e well typed, in a scope
\* that does not bind x while the nearest enclosing binding is immutable,
\* declares a new immutable x in the current scope of the checker (with
\* the type of e) and of the lowering (with a fresh slot, which the value is
\* stored to). Later in that scope x resolves to the new binding; once the
\* scope is closed x resolves to the outer binding again, whose slot,
\* mutability, type and declaration site are what they were.
C3_ShadowingDeclaresAndExpires ==
    /\ (TcStepped /\ ShadowsIn(TcPre, Len(tcBefore)) /\ TcRhsChecks)
       => /\ pc = "check"
          /\ DeclaredInTop(TcPre, tcScopes, TcNode.name,
                           [is_mutable |-> FALSE, declLoc |-> TcNode.loc,
                            type |-> TcRhsType])
    /\ (CgStepped /\ ShadowsIn(CgPre.scopes, Len(cgBefore)))
       => /\ DeclaredInTop(CgPre.scopes, cg.scopes, CgNode.name,
                           [allocaInst |-> CgPre.nalloca + 1, is_mutable |-> FALSE])
          /\ AllocaSlots(CgNew) = {CgPre.nalloca + 1}
          /\ StoreSlots(CgNew) = {CgPre.nalloca + 1}
    /\ TcStepped
       => \A i \in 1..(Len(tcBefore) - 1) :
             (ShadowsIn(tcBefore[i], i) /\ Bound(tcBefore[i + 1], prog[i].name))
             => /\ StillInScope(TcDepths, i, Len(tcBefore))
                   => Nearest(TcPre, prog[i].name) = Nearest(tcBefore[i + 1], prog[i].name)
                /\ \A k \in (i + 1)..(Len(tcBefore) - 1) :
                      AfterScopeOf(TcDepths, i, k, Len(tcBefore))
                      => Nearest(TcPre, prog[i].name) = Nearest(tcBefore[i], prog[i].name)
    /\ CgStepped
       => \A i \in 1..(Len(cgBefore) - 1) :
             ShadowsIn(cgBefore[i].scopes, i)
             => /\ StillInScope(CgDepths, i, Len(cgBefore))
                   => /\ Nearest(CgPre.scopes, prog[i].name)
                            = [allocaInst |-> cgBefore[i].nalloca + 1, is_mutable |-> FALSE]
                      /\ ReadsFirst(CgNode, prog[i].name)
                            => LoadsFrom(cgBefore[i].nalloca + 1)
                /\ \A k \in (i + 1)..(Len(cgBefore) - 1) :
                      AfterScopeOf(CgDepths, i, k, Len(cgBefore))
                      => /\ Nearest(CgPre.scopes, prog[i].name)
                               = Nearest(cgBefore[i].scopes, prog[i].name)
                         /\ ReadsFirst(CgNode, prog[i].name)
                               => LoadsFrom(Nearest(cgBefore[i].scopes,
                                                    prog[i].name).allocaInst)

C3_Witness ==
    /\ CgStepped
    /\ \E i \in 1..(Len(cgBefore) - 1) : \E k \in (i + 1)..(Len(cgBefore) - 1) :
          /\ ShadowsIn(cgBefore[i].scopes, i)
          /\ ShadowsIn(tcBefore[i], i)
          /\ AfterScopeOf(CgDepths, i, k, Len(cgBefore))
          /\ ReadsFirst(CgNode, prog[i].name)
          /\ LoadsFrom(Nearest(cgBefore[i].scopes, prog[i].name).allocaInst)
          /\ Nearest(tcBefore[i + 1], prog[i].name).type
                # Nearest(tcBefore[i], prog[i].name).type

\* C4: a declaration mut x = e, e well typed, declares a new mutable x in
\* the current scope with the type of e, whatever the scopes bound before,
\* and a declaration whose check fails fails with the error of e, never
\* with a reassignment or type mismatch error. Its lowering binds x in the
\* current scope to a slot allocated by the declaration, and stores to no
\* slot that existed before it.
C4_MutAlwaysDeclares ==
    /\ (TcStepped /\ IsMutDeclaration(TcNode) /\ TcRhsChecks)
       => /\ pc = "check"
          /\ DeclaredInTop(TcPre, tcScopes, TcNode.name,
                           [is_mutable |-> TRUE, declLoc |-> TcNode.loc,
                            type |-> TcRhsType])
    /\ (TcStepped /\ IsMutDeclaration(TcNode) /\ pc = "check_catch")
       => /\ ~TcRhsChecks
          /\ err.what[1] # "mismatched types"
          /\ err.what[1] # "Cannot reassign to immutable variable '" \o TcNode.name \o "'"
          /\ tcScopes = TcPre
    /\ (CgStepped /\ IsMutDeclaration(CgNode))
       => /\ DeclaredInTop(CgPre.scopes, cg.scopes, CgNode.name,
                           [allocaInst |-> CgPre.nalloca + 1, is_mutable |-> TRUE])
          /\ AllocaSlots(SubSeq(cg.code, 1, CgPre.ncode)) = 1..CgPre.nalloca
          /\ AllocaSlots(CgNew) = {CgPre.nalloca + 1}
          /\ StoreSlots(CgNew) = {CgPre.nalloca + 1}

C4_Witness ==
    /\ CgStepped
    /\ IsMutDeclaration(CgNode)
    /\ BoundInTop(CgPre.scopes, CgNode.name)
    /\ ~CgPre.scopes[Len(CgPre.scopes)][CgNode.name].is_mutable
    /\ BoundInTop(tcBefore[Len(cgBefore)], CgNode.name)
    /\ Nearest(tcBefore[Len(cgBefore)], CgNode.name).type = "Number"
    /\ CgNode.value.k = "str"
    /\ StoreSlots(CgNew) = {CgPre.nalloca + 1}

\* C5: an assignment statement x = e without mut, e well typed, whose
\* target (the binding of the current scope, else the nearest enclosing
\* one) is mutable and was declared with another type than e has, fails
\* with "mismatched types", a note naming the location of the target's
\* declaration and a help line naming the declared type as expected and the
\* type of e as found, and changes no scope. No step of the checker changes
\* the type or the mutability recorded for a binding.
C5_MismatchedTypesFail ==
    /\ (/\ TcStepped
        /\ IsPlainAssignment(TcNode)
        /\ Bound(TcPre, TcNode.name)
        /\ Nearest(TcPre, TcNode.name).is_mutable
        /\ TcRhsChecks
        /\ TcRhsType # Nearest(TcPre, TcNode.name).type)
       => /\ pc = "check_catch"
          /\ err.kind = "ParseError"
          /\ err.what =
               <<"mismatched types",
                 "note: expected due to first assignment: "
                     \o LocText(Nearest(TcPre, TcNode.name).declLoc),
                 "help: expected "
                     \o (IF Nearest(TcPre, TcNode.name).type = "Number"
                         THEN "number" ELSE "string")
                     \o ", found "
                     \o (IF TcRhsType = "Number" THEN "number" ELSE "string")>>
          /\ tcScopes = TcPre
    /\ TcStepped
       => \A q \in 1..Len(TcPre) :
             q <= Len(tcScopes)
             => \A n \in DOMAIN TcPre[q] \cap DOMAIN tcScopes[q] :
                   tcScopes[q][n].declLoc = TcPre[q][n].declLoc
                   => tcScopes[q][n] = TcPre[q][n]

C5_Witness ==
    /\ TcStepped
    /\ IsPlainAssignment(TcNode)
    /\ ~BoundInTop(TcPre, TcNode.name)
    /\ Bound(TcPre, TcNode.name)
    /\ Nearest(TcPre, TcNode.name).is_mutable
    /\ Nearest(TcPre, TcNode.name).type = "String"
    /\ TcRhsChecks
    /\ TcRhsType = "Number"
    /\ pc = "check_catch"
    /\ err.what[1] = "mismatched types"

\* The expressions a statement evaluates, in the order of evaluation.
ItemExprs(item) ==
    IF item.k = "asg" THEN <<item.value>>
    ELSE IF item.k = "print" THEN <<item.fmt>> \o item.args
    ELSE IF item.k \in {"if", "while"} THEN <<item.cond>>
    ELSE <<>>

\* The locations of the variable reads of e that no scope resolves.
RECURSIVE UnresolvedReads(_, _)
UnresolvedReads(e, scopes) ==
    IF e.k = "var" THEN (IF Bound(scopes, e.name) THEN {} ELSE {e.loc})
    ELSE IF e.k = "un" THEN UnresolvedReads(e.operand, scopes)
    ELSE IF e.k = "bin"
    THEN UnresolvedReads(e.lhs, scopes) \cup UnresolvedReads(e.rhs, scopes)
    ELSE IF e.k = "asg" THEN UnresolvedReads(e.value, scopes)
    ELSE {}

ItemUnresolvedReads(item, scopes) ==
    UNION {UnresolvedReads(ItemExprs(item)[q], scopes) : q \in 1..Len(ItemExprs(item))}

\* C6: a variable read that no enclosing scope resolves at that point of
\* the traversal makes the compilation fail with "cannot find value 'x' in
\* this scope", reported at the line and column of that variable; this
\* includes a read of x in the right-hand side of the assignment that would
\* first declare x.
C6_UnresolvedReadFails ==
    (/\ pc = "exit"
     /\ tcBefore # <<>>
     /\ ItemUnresolvedReads(prog[Len(tcBefore)], tcBefore[Len(tcBefore)]) # {})
    => /\ exitCode = 1
       /\ ~outFile
       /\ stderr.lines # <<>>
       /\ \E n \in Names : stderr.lines[1] = "cannot find value '" \o n \o "' in this scope"
       /\ \E l \in ItemUnresolvedReads(prog[Len(tcBefore)], tcBefore[Len(tcBefore)]) :
             /\ stderr.file = l.file
             /\ stderr.line = l.line
             /\ stderr.column = l.column

\* The type of an operand: String for a string literal and for a variable
\* whose binding is a string, Number otherwise.
OperandType(e, scopes) ==
    IF e.k = "str" THEN "String"
    ELSE IF e.k = "var" /\ Bound(scopes, e.name) THEN Nearest(scopes, e.name).type
    ELSE "Number"

\* e contains a unary minus or a binary operator with a String operand.
RECURSIVE HasStringOperand(_, _)
HasStringOperand(e, scopes) ==
    IF e.k = "un"
    THEN OperandType(e.operand, scopes) = "String" \/ HasStringOperand(e.operand, scopes)
    ELSE IF e.k = "bin"
    THEN \/ OperandType(e.lhs, scopes) = "String"
         \/ OperandType(e.rhs, scopes) = "String"
         \/ HasStringOperand(e.lhs, scopes)
         \/ HasStringOperand(e.rhs, scopes)
    ELSE IF e.k = "asg" THEN HasStringOperand(e.value, scopes)
    ELSE FALSE

ItemHasStringOperand(item, scopes) ==
    \E q \in 1..Len(ItemExprs(item)) : HasStringOperand(ItemExprs(item)[q], scopes)

IsLeaf(e) == e.k \in {"num", "str", "var"}

\* C7: the checker accepts no statement that contains a unary minus or a
\* binary operator with a String operand (a string literal or a variable
\* bound to a string), and it rejects a binary operator on two resolved
\* operands with the message naming the left operand when the left one is
\* a String, the right operand when only the right one is.
C7_StringOperandsRejected ==
    /\ \A i \in 1..Len(tcBefore) :
          i < tcPos => ~ItemHasStringOperand(prog[i], tcBefore[i])
    /\ (/\ pc = "check_catch"
        /\ prog[tcPos].k = "asg"
        /\ prog[tcPos].value.k = "bin"
        /\ IsLeaf(prog[tcPos].value.lhs)
        /\ IsLeaf(prog[tcPos].value.rhs)
        /\ ItemUnresolvedReads(prog[tcPos], tcBefore[tcPos]) = {}
        /\ ItemHasStringOperand(prog[tcPos], tcBefore[tcPos]))
       => err.what =
            <<IF OperandType(prog[tcPos].value.lhs, tcBefore[tcPos]) = "String"
              THEN "String literal cannot be used in binary operation (left operand)"
              ELSE "String literal cannot be used in binary operation (right operand)">>

\* The names a scope stack resolves, each with the mutability of its
\* nearest binding; the names its innermost scope binds.
Visible(scopes) ==
    {<<n, Nearest(scopes, n).is_mutable>> : n \in {m \in Names : Bound(scopes, m)}}

Current(scopes) ==
    {<<n, scopes[Len(scopes)][n].is_mutable>> : n \in {m \in Names : BoundInTop(scopes, m)}}

\* C8: in a program the checker accepted, before every statement of the
\* lowering the checker's and the codegen's scope stacks resolve the same
\* names with the same mutability and their innermost scopes bind the same
\* names, and the lowering of an assignment statement allocates a slot
\* exactly when the checker declared a binding at that statement.
C8_LoweringFollowsChecker ==
    \A i \in 1..Len(cgBefore) :
       /\ Visible(cgBefore[i].scopes) = Visible(tcBefore[i])
       /\ Current(cgBefore[i].scopes) = Current(tcBefore[i])
       /\ (i < Len(cgBefore) /\ prog[i].k = "asg")
          => ((cgBefore[i + 1].nalloca > cgBefore[i].nalloca)
              <=> (/\ BoundInTop(tcBefore[i + 1], prog[i].name)
                   /\ tcBefore[i + 1][Len(tcBefore[i + 1])][prog[i].name].declLoc
                         = prog[i].loc))

\* A step of one compilation keeps the order of the stages.
StagesInOrderStep ==
    /\ tcBefore' # tcBefore
       => /\ open = <<>>
          /\ tcPos >= 1
          /\ err.kind = "none"
          /\ cgBefore = <<>>
    /\ tcPos >= 1 => (prog' = prog /\ open' = open)
    /\ (cgBefore' # cgBefore \/ cg'.code # cg.code)
       => /\ tcPos > Len(prog)
          /\ Len(tcBefore) = Len(prog)
          /\ tcBefore' = tcBefore
          /\ err.kind = "none"
          /\ ~outFile
    /\ outFile' # outFile
       => /\ outFile'
          /\ cgPos > Len(prog)
          /\ Len(cgBefore) = Len(prog)
          /\ cg' = cg
          /\ err.kind = "none"
          /\ exitCode' = 0
    /\ err.kind # "none"
       => /\ err'.kind # "none"
          /\ err'.what = err.what
          /\ UNCHANGED <<prog, tcScopes, tcPos, tcBefore, cg, cgPos, cgBefore, outFile>>
          /\ exitCode' \in {-1, 1}
    /\ pc = "exit" => FALSE

\* C10: the checker visits statements only of a completely parsed program,
\* the lowering visits statements only of a program the checker accepted as
\* a whole, the output file is written only after the lowering of the whole
\* program, main returns 0 exactly when the output file was written and 1
\* otherwise, and after a failure no later stage takes a step and no output
\* file is written.
C10_StagesInOrder ==
    /\ [](pc = "exit" => (exitCode \in {0, 1} /\ (exitCode = 0 <=> outFile)))
    /\ [](pc # "exit" => (exitCode = -1 /\ ~outFile))
    /\ [][StagesInOrderStep]_vars

C10_Witness ==
    /\ pc = "exit"
    /\ exitCode = 1
    /\ Len(tcBefore) >= 2
    /\ cgBefore = <<>>
    /\ err.kind = "ParseError"
    /\ stderr.lines = err.what
    /\ ~outFile

----------------------------------------------------------------------------
(* The execution of lowered code                                            *)

\* The number of instructions an execution is followed for.
MaxSteps == 100

\* The instruction executed after index i in block b (0 when there is none).
NextIn(code, i, b) ==
    IF \E j \in (i + 1)..Len(code) : code[j].bb = b
    THEN CHOOSE j \in (i + 1)..Len(code) :
            code[j].bb = b /\ \A q \in (i + 1)..(j - 1) : code[q].bb # b
    ELSE 0

\* A machine: the instruction it stands at, the block it came from, the
\* slots, the values of the instructions executed, and the numbers printed.
\* Numbers are whole; a global string is the value "ptr".
Machine(code) ==
    [at |-> NextIn(code, 0, 1), bb |-> 1, from |-> 0, mem |-> EmptyMap, vals |-> EmptyMap,
     out |-> <<>>, steps |-> 0, done |-> FALSE]

ValueOf(m, v) ==
    IF v.kind = "const" THEN v.val
    ELSE IF v.kind = "inst" THEN m.vals[v.id]
    ELSE "ptr"

Truth(b) == IF b THEN 1 ELSE 0

\* The value an instruction computes from the values a and b of its
\* operands.
Computed(op, a, b) ==
    CASE op = "fadd" -> a + b
      [] op = "fsub" -> a - b
      [] op = "fmul" -> a * b
      [] op = "fcmp olt" -> Truth(a < b)
      [] op = "fcmp ole" -> Truth(a <= b)
      [] op = "fcmp ogt" -> Truth(a > b)
      [] op = "fcmp oge" -> Truth(a >= b)
      [] op = "fcmp oeq" -> Truth(a = b)
      [] op = "fcmp one" -> Truth(a # b)

\* The machine after the instruction it stands at, which goes on in its
\* block.
Stepped(code, m, result) ==
    [m EXCEPT !.vals = MapPut(@, m.at, result),
              !.at = NextIn(code, m.at, m.bb),
              !.steps = @ + 1]

\* The machine after a branch to block b.
Jumped(code, m, b) ==
    [m EXCEPT !.at = NextIn(code, 0, b), !.bb = b, !.from = m.bb, !.steps = @ + 1]

ExecuteInstr(code, m, ins) ==
    CASE ins.op = "alloca" -> Stepped(code, m, 0)
      [] ins.op = "store" ->
            Stepped(code, [m EXCEPT !.mem = MapPut(@, ins.slot, ValueOf(m, ins.args[1]))], 0)
      [] ins.op = "load" -> Stepped(code, m, m.mem[ins.slot])
      [] ins.op = "fneg" -> Stepped(code, m, 0 - ValueOf(m, ins.args[1]))
      [] ins.op \in {"uitofp", "sitofp", "fptosi"} ->
            Stepped(code, m, ValueOf(m, ins.args[1]))
      [] ins.op = "phi" ->
            Stepped(code, m, IF m.from = ins.t1 THEN ValueOf(m, ins.args[1])
                             ELSE ValueOf(m, ins.args[2]))
      [] ins.op = "call printf" ->
            Stepped(code, [m EXCEPT !.out = @ \o [q \in 1..(Len(ins.args) - 1) |->
                                                     ValueOf(m, ins.args[q + 1])]], 0)
      [] ins.op = "br" -> Jumped(code, m, ins.t1)
      [] ins.op = "condbr" ->
            Jumped(code, m, IF ValueOf(m, ins.args[1]) # 0 THEN ins.t1 ELSE ins.t2)
      [] ins.op = "ret" -> [m EXCEPT !.done = TRUE]
      [] OTHER -> Stepped(code, m, Computed(ins.op, ValueOf(m, ins.args[1]),
                                            ValueOf(m, ins.args[2])))

\* The machine when main has returned, or after MaxSteps instructions.
RECURSIVE Execute(_, _)
Execute(code, m) ==
    IF m.done \/ m.at = 0 \/ m.steps >= MaxSteps THEN m
    ELSE Execute(code, ExecuteInstr(code, m, code[m.at]))

\* What the written program prints when it is run to its end.
Prints(code, numbers) ==
    /\ Execute(code, Machine(code)).done
    /\ Execute(code, Machine(code)).out = numbers

\* C9: the program mut n = 5; result = 1; while (n > 0) { result = result *
\* n; n = n - 1; } print result; is accepted by the parser and the checker,
\* its lowering is written, and the written code, when executed, prints 120
\* and nothing else.
C9_FactorialPrints120 ==
    (input.text = Factorial /\ pc = "exit" /\ options.ok /\ err.kind # "runtime_error")
    => /\ exitCode = 0
       /\ Len(tcBefore) = Len(prog)
       /\ Len(cgBefore) = Len(prog)
       /\ outFile
       /\ Prints(cg.code, <<120>>)

----------------------------------------------------------------------------
(* The lexer                                                                *)

\* The token type of each keyword of the language.
KeywordType ==
    [w \in {"print", "if", "else", "while", "mut"} |->
        CASE w = "print" -> "TOK_PRINT"
          [] w = "if" -> "TOK_IF"
          [] w = "else" -> "TOK_ELSE"
          [] w = "while" -> "TOK_WHILE"
          [] w = "mut" -> "TOK_MUT"]

\* The types of the tokens the lexer has returned.
ReturnedTypes == [i \in 1..Len(lexer.returned) |-> lexer.returned[i].type]

\* C11: the lexer returns each of the words print, if, else, while and mut
\* as the token of that keyword, never as an identifier, and the text
\* `mut x = 5;` as the tokens MUT, IDENTIFIER x, ASSIGN, NUMBER, SEMICOLON.
C11_KeywordsAreKeywordTokens ==
    /\ \A i \in 1..Len(lexer.returned) :
          (/\ lexer.returned[i].type # "TOK_STRING"
           /\ lexer.returned[i].value \in DOMAIN KeywordType)
          => lexer.returned[i].type = KeywordType[lexer.returned[i].value]
    /\ (lexer.object.input = MutDeclaration /\ AtEOF)
       => /\ ReturnedTypes = <<"TOK_MUT", "TOK_IDENTIFIER", "=", "TOK_NUMBER", ";", "TOK_EOF">>
          /\ lexer.returned[2].value = "x"

\* getNextToken has just returned a token: the token, and the number of bytes
\* of the text that lie before it and before its end.
HasReturned == lexer.thrown.kind = "none" /\ lexer.returned # <<>>
LastToken == lexer.returned[Len(lexer.returned)]
TokenStart == SkipToToken(lexer.before).pos
TokenEnd == lexer.object.pos

\* a is not after b in the text.
NotAfter(a, b) == a.line < b.line \/ (a.line = b.line /\ a.column <= b.column)

\* C13: the range of every token the lexer returns has start <= end on one
\* line, its width in columns is the number of bytes of its lexeme, and the
\* range of TOK_EOF is empty.
C13_TokenRanges ==
    /\ \A i \in 1..Len(lexer.returned) :
          /\ NotAfter(lexer.returned[i].range.start, lexer.returned[i].range.end)
          /\ lexer.returned[i].range.start.line = lexer.returned[i].range.end.line
          /\ lexer.returned[i].type = "TOK_EOF"
             => lexer.returned[i].range.start = lexer.returned[i].range.end
    /\ HasReturned
       => LastToken.range.end.column - LastToken.range.start.column
          = TokenEnd - TokenStart

\* The lexer has returned the fourteen bytes of "hello\nworld" as one string
\* token, and a two-character operator in another text.
C13_Witness ==
    /\ HasReturned
    /\ \/ /\ lexer.object.input = HelloWorld
          /\ LastToken.type = "TOK_STRING"
          /\ LastToken.range.end.column - LastToken.range.start.column = 14
       \/ /\ lexer.object.input = Comparison
          /\ LastToken.type = ">="
          /\ LastToken.range.end.column - LastToken.range.start.column = 2

\* The line terminators among the first n bytes of text: every "\n", and
\* every "\r" that no "\n" follows.
Terminators(text, n) ==
    {i \in 1..n : \/ text[i] = "\n"
                  \/ text[i] = "\r" /\ ~(i < Len(text) /\ text[i + 1] = "\n")}

\* The bytes among the first n of text that belong to a line terminator.
TerminatorBytes(text, n) == {i \in 1..n : text[i] \in {"\n", "\r"}}

\* The place in the file after n bytes of text.
PlaceAfter(text, n) ==
    [line |-> 1 + Cardinality(Terminators(text, n)),
     column |-> 1 + n - (IF TerminatorBytes(text, n) = {} THEN 0
                         ELSE CHOOSE i \in TerminatorBytes(text, n) :
                                  \A j \in TerminatorBytes(text, n) : j <= i)]
Place(loc) == [line |-> loc.line, column |-> loc.column]

\* C14: whatever the lexer has consumed, its line is 1 plus the number of
\* line terminators consumed ("\n", "\r\n" and a lone "\r" count once each)
\* and its column 1 plus the number of bytes since the last of them; so are
\* the start and the end of every token it returns.
C14_LinesAndColumns ==
    /\ Place(currentLocation(lexer.object)) = PlaceAfter(lexer.object.input, lexer.object.pos)
    /\ HasReturned
       => /\ Place(LastToken.range.start) = PlaceAfter(lexer.object.input, TokenStart)
          /\ Place(LastToken.range.end) = PlaceAfter(lexer.object.input, TokenEnd)
    /\ (lexer.object.input = CarriageReturn /\ Len(lexer.returned) = 2)
       => Place(LastToken.range.start) = [line |-> 2, column |-> 1]
    /\ (lexer.object.input = OnlyWhitespace /\ AtEOF)
       => Place(LastToken.range.start) = [line |-> 2, column |-> 3]

\* The lexer has consumed "\r\n" and returned the token after it; in another
\* text it has consumed a lone "\r", a tab and a byte of a multibyte
\* character.
C14_Witness ==
    \/ /\ lexer.object.input = CarriageReturn
       /\ Len(lexer.returned) = 2
       /\ LastToken.value = "y"
    \/ /\ lexer.object.input = <<"\r", "\t", "<c3>">>
       /\ lexer.object.pos = 3
       /\ lexer.object.line = 2

\* The call of getNextToken that has just ended began at the opening quote
\* of a string literal, which is byte Quote of the text.
Quote == TokenStart + 1
AtString == CharAt(lexer.before.input, TokenStart) = "\""

\* Byte i of text, after the opening quote at q, is the character of an
\* escape sequence: a backslash that is itself no such character precedes it.
RECURSIVE EscapedAt(_, _, _)
EscapedAt(text, q, i) == i > q + 1 /\ text[i - 1] = "\\" /\ ~EscapedAt(text, q, i - 1)

\* Where the literal that opens at q ends: at the end of the text, at a line
\* terminator, at a quote outside an escape sequence, or at the character of
\* an escape sequence that is none of n, t, r, backslash and quote.
EndsAt(text, q, i) ==
    \/ i = Len(text) + 1
    \/ text[i] \in {"\n", "\r"}
    \/ text[i] = "\"" /\ ~EscapedAt(text, q, i)
    \/ EscapedAt(text, q, i) /\ text[i] \notin Escapes
StringEnd(text, q) ==
    CHOOSE i \in (q + 1)..(Len(text) + 1) :
        EndsAt(text, q, i) /\ \A j \in (q + 1)..(i - 1) : ~EndsAt(text, q, j)

\* The value of the literal between q and its closing quote at e: its bytes
\* but for the backslashes that begin an escape sequence, the characters n,
\* t and r of an escape sequence replaced.
RECURSIVE StringValue(_, _, _)
StringValue(text, q, e) ==
    IF e <= q + 1 THEN <<>>
    ELSE IF EscapedAt(text, q, e - 1)
    THEN Append(StringValue(text, q, e - 2), Unescaped(text[e - 1]))
    ELSE Append(StringValue(text, q, e - 1), text[e - 1])

\* C16: a string literal ends at its first quote outside an escape sequence
\* and is returned with the range from its opening quote to one past that
\* quote, every escape sequence one byte of its value; a line terminator or
\* the end of the text before that quote, also after a backslash, fails with
\* "Unterminated string literal", any escape sequence but \n \t \r \\ \"
\* with "Invalid escape sequence in string literal".
C16_StringLiterals ==
    (AtString /\ (HasReturned \/ lexer.thrown.kind # "none"))
    => \E e \in {StringEnd(lexer.object.input, Quote)} :
          IF e <= Len(lexer.object.input) /\ lexer.object.input[e] = "\""
             /\ ~EscapedAt(lexer.object.input, Quote, e)
          THEN /\ HasReturned
               /\ LastToken.type = "TOK_STRING"
               /\ LastToken.value = StringValue(lexer.object.input, Quote, e)
               /\ Place(LastToken.range.start) = PlaceAfter(lexer.object.input, Quote - 1)
               /\ Place(LastToken.range.end) = PlaceAfter(lexer.object.input, e)
               /\ TokenEnd = e
          ELSE /\ lexer.thrown.kind = "ParseError"
               /\ lexer.thrown.what =
                     IF e <= Len(lexer.object.input)
                        /\ lexer.object.input[e] \notin {"\n", "\r"}
                     THEN <<"Invalid escape sequence in string literal">>
                     ELSE <<"Unterminated string literal">>

\* The lexer has returned "hello\nworld" with the two bytes of its escape
\* sequence as one line feed; it has failed on a backslash at the end of a
\* text, and on the escape sequence \x.
C16_Witness ==
    /\ AtString
    /\ \/ /\ lexer.object.input = HelloWorld
          /\ HasReturned
          /\ Len(LastToken.value) = 11
          /\ LastToken.value[6] = "\n"
       \/ /\ lexer.object.input = <<"\"", "\\">>
          /\ lexer.thrown.what = <<"Unterminated string literal">>
       \/ /\ lexer.object.input = <<"\"", "\\", "x", "\"">>
          /\ lexer.thrown.what = <<"Invalid escape sequence in string literal">>

----------------------------------------------------------------------------
(* The parser                                                               *)

\* main has caught an exception thrown while the parser was at work; the
\* statement it was in begins at CurrentToken.
ParserThrew == pc = "catch" /\ input.pos > 0 /\ tcPos = 0

\* The pieces of an expression statement that blanks separate, its ";" left
\* out.
AddChar(pieces, c) ==
    IF c = ";" THEN pieces
    ELSE IF c = " " THEN Append(pieces, <<>>)
    ELSE IF pieces = <<>> THEN <<<<c>>>>
    ELSE [pieces EXCEPT ![Len(pieces)] = Append(@, c)]

RECURSIVE Pieces(_)
Pieces(text) ==
    IF text = <<>> THEN <<>>
    ELSE AddChar(Pieces(SubSeq(text, 1, Len(text) - 1)), text[Len(text)])

\* How tightly a binary operator binds: the rows of the precedence table.
Level(op) ==
    IF op \in {"*", "/"} THEN 3
    ELSE IF op \in {"+", "-"} THEN 2
    ELSE 1

\* An expression without its locations.
RECURSIVE Shape(_)
Shape(e) ==
    CASE e.k = "num" -> [k |-> "num", val |-> e.val]
      [] e.k = "un" -> [k |-> "un", op |-> e.op, operand |-> Shape(e.operand)]
      [] e.k = "bin" -> [k |-> "bin", op |-> e.op, lhs |-> Shape(e.lhs), rhs |-> Shape(e.rhs)]
      [] OTHER -> [k |-> e.k]

\* The operand a piece stands for: a minus applies to the number alone.
Leaf(piece) ==
    IF piece[1] = "-"
    THEN [k |-> "un", op |-> "-", operand |-> [k |-> "num", val |-> Decimal(Tail(piece))]]
    ELSE [k |-> "num", val |-> Decimal(piece)]

\* Among the operators at the even places i+1 .. j-1 of the pieces, the one
\* that binds last: the rightmost of those that bind least tightly.
Root(pieces, i, j) ==
    CHOOSE k \in {q \in (i + 1)..(j - 1) : q % 2 = 0} :
        \A q \in {r \in (i + 1)..(j - 1) : r % 2 = 0} :
            \/ Level(Text(pieces[k])) < Level(Text(pieces[q]))
            \/ Level(Text(pieces[k])) = Level(Text(pieces[q])) /\ q <= k

\* The expression that pieces i .. j mean.
RECURSIVE Grouped(_, _, _)
GroupedAt(pieces, i, j, k) ==
    [k |-> "bin", op |-> Text(pieces[k]),
     lhs |-> Grouped(pieces, i, k - 1), rhs |-> Grouped(pieces, k + 1, j)]
Grouped(pieces, i, j) ==
    IF i = j THEN Leaf(pieces[i]) ELSE GroupedAt(pieces, i, j, Root(pieces, i, j))

\* parseProgram has parsed the expression statement that is the source.
ParsedExpression ==
    /\ input.text \in ExpressionStatements
    /\ Len(prog) = 1
    /\ input.pos > 1

\* C17: "*" and "/" bind tighter than "+" and "-", which bind tighter than
\* the comparisons; operators of one level group from the left; a prefix
\* minus applies to its operand before any binary operator does.
C17_PrecedenceAndAssociativity ==
    ParsedExpression
    => Shape(prog[1]) = Grouped(Pieces(input.text), 1, Len(Pieces(input.text)))

\* The three expressions of the claim, parsed as (1 + (2 * 3)) == 7,
\* (1 < 2) < 3 and (-2) * 3.
C17_Witness ==
    /\ ParsedExpression
    /\ \/ /\ input.text = MixedLevels
          /\ prog[1].op = "==" /\ prog[1].lhs.op = "+" /\ prog[1].lhs.rhs.op = "*"
       \/ /\ input.text = ChainedComparison
          /\ prog[1].op = "<" /\ prog[1].lhs.op = "<" /\ prog[1].rhs.k = "num"
       \/ /\ input.text = NegatedFactor
          /\ prog[1].op = "*" /\ prog[1].lhs.k = "un" /\ prog[1].rhs.k = "num"

\* main has caught the exception a call of Lexer::getNextToken threw, which
\* stands at the end of the tokens of the source.
ThrownBy == Source.toks[Len(Source.toks)]
LexingFailed ==
    /\ pc = "catch"
    /\ tcPos = 0
    /\ options.ok
    /\ ThrownBy.type = "thrown"
    /\ err.what = ThrownBy.err.what

\* C15: whatever fails in the lexer, in the first token or later, reaches the
\* caller of the parser as a ParseError located where the lexer stood when
\* it failed.
C15_LexerFailuresAreParseErrors ==
    LexingFailed => /\ err.kind = "ParseError"
                    /\ err.loc = ThrownBy.range.start

\* C12: a "{" where a statement begins opens a block statement: the parser
\* never rejects the brace itself, at top level or inside a block, and the
\* program `x = 1; { x = 2; print x; } print x;` is compiled.
C12_BlockIsAStatement ==
    /\ (ParserThrew /\ CurrentToken.type = "{")
       => ~(err.kind = "ParseError" /\ err.loc = CurrentToken.range.start)
    /\ (input.text = BlockAtTopLevel /\ pc = "exit" /\ options.ok
        /\ err.kind # "runtime_error")
       => exitCode = 0

\* The messages of the parser for a missing ";".
ExpectedSemicolon ==
    {"Expected ';' after print statement",
     "Expected ';' after expression statement",
     "Expected ';' after mutable variable declaration"}

\* C18: when the ";" is missing after a print statement, an expression
\* statement or a mut declaration, the parser fails with a message that
\* says "Expected ';'", located at the end of the last token of the
\* statement, wherever the next token stands.
C18_MissingSemicolon ==
    \A s \in WithoutSemicolon, f \in Followers :
        (input.text = s \o f /\ input.pos > 0)
        => /\ pc \in {"parse", "catch", "exit"}
           /\ pc = "catch"
              => /\ err.kind = "ParseError"
                 /\ err.what[1] \in ExpectedSemicolon
                 /\ Place(err.loc) = [line |-> 1, column |-> Len(s) + 1]

\* C19: an assignment whose left-hand side is no identifier fails with
\* "Invalid assignment target" at the first token of that left-hand side.
C19_InvalidAssignmentTarget ==
    \A b \in Before, target \in InvalidTargets :
        (input.text = b \o target \o IsAssigned /\ input.pos > 0)
        => /\ pc \in {"parse", "catch", "exit"}
           /\ pc = "catch"
              => /\ err.kind = "ParseError"
                 /\ err.what = <<"Invalid assignment target">>
                 /\ Place(err.loc) = PlaceAfter(input.text, Len(b))

\* The checker

\* The tokens at fault where a unary minus or a binary operator of e has a
\* String operand: the operator and the operand.
RECURSIVE StringOperandSites(_, _)
StringOperandSites(e, scopes) ==
    IF e.k = "un"
    THEN (IF OperandType(e.operand, scopes) = "String"
          THEN {e.loc, e.operand.loc} ELSE {})
         \cup StringOperandSites(e.operand, scopes)
    ELSE IF e.k = "bin"
    THEN (IF OperandType(e.lhs, scopes) = "String" THEN {e.loc, e.lhs.loc} ELSE {})
         \cup (IF OperandType(e.rhs, scopes) = "String" THEN {e.loc, e.rhs.loc} ELSE {})
         \cup StringOperandSites(e.lhs, scopes)
         \cup StringOperandSites(e.rhs, scopes)
    ELSE IF e.k = "asg" THEN StringOperandSites(e.value, scopes)
    ELSE {}

ItemStringOperandSites(item, scopes) ==
    UNION {StringOperandSites(ItemExprs(item)[q], scopes) : q \in 1..Len(ItemExprs(item))}

\* The compilation of a source text ended in the checker.
CheckerFailed ==
    /\ input.text # <<>>
    /\ pc = "catch"
    /\ tcPos > 0
    /\ cgPos = 0

\* C20: every failure of the checker (unresolved name, immutable
\* reassignment, mismatched types, string operand of a unary or binary
\* operator) is reported with the checker's message at the file, line and
\* column of the offending token of the source, whatever else the source
\* text contains.
C20_CheckerFailuresAreLocated ==
    CheckerFailed
    => \E e \in {CheckItem(prog[tcPos], tcBefore[Len(tcBefore)]).err} :
          /\ err.kind = "ParseError"
          /\ err.what = e.what
          /\ IF e.kind = "ParseError"
             THEN err.loc = e.loc
             ELSE err.loc \in ItemStringOperandSites(prog[tcPos], tcBefore[Len(tcBefore)])

\* The lowering

\* The instructions that jump to block m, and the PHIs, by their indices in
\* the code.
JumpsTo(code, m) ==
    {i \in 1..Len(code) :
        \/ code[i].op = "br" /\ code[i].t1 = m
        \/ code[i].op = "condbr" /\ m \in {code[i].t1, code[i].t2}}

Phis(code) == {p \in 1..Len(code) : code[p].op = "phi"}

\* Instruction i is the last one of its block; an alloca is inserted at the
\* head of the entry block whenever it is emitted.
EndsItsBlock(code, i) ==
    \A j \in (i + 1)..Len(code) : code[j].op # "alloca" => code[j].bb # code[i].bb

\* The PHI at p merges an if whose blocks then, else and merge were created
\* in this order: the condbr to then and else; exactly two jumps to merge,
\* both unconditional, each the end of its block; the then branch's jump
\* before anything of the else branch; the PHI's two incoming blocks are the
\* blocks of these jumps, the first block of the branch or a block created
\* inside the branch.
MergesAnIf(code, p, m) ==
    /\ \E c \in 1..p : code[c].op = "condbr" /\ code[c].t1 = m - 2 /\ code[c].t2 = m - 1
    /\ Len(code[p].args) = 2
    /\ code[p].t1 # code[p].t2
    /\ Cardinality(JumpsTo(code, m)) = 2
    /\ \A i \in JumpsTo(code, m) : code[i].op = "br" /\ i < p /\ EndsItsBlock(code, i)
    /\ {code[i].bb : i \in JumpsTo(code, m)} = {code[p].t1, code[p].t2}
    /\ code[p].t1 = m - 2 \/ code[p].t1 > m
    /\ code[p].t2 = m - 1 \/ code[p].t2 > m
    /\ \A i \in JumpsTo(code, m), j \in 1..Len(code) :
          (code[i].bb = code[p].t1 /\ code[j].bb \in {m - 1, code[p].t2}) => i < j

\* C21: lowering an if creates a then, an else and a merge block, ends each
\* branch with an unconditional jump to merge, and places in merge one PHI
\* with two incoming pairs whose blocks are the blocks the two jumps were
\* emitted in (the final block of each branch); merge has no other
\* predecessor.
C21_PhiOfFinalBlocks ==
    /\ \A p \in Phis(cg.code) : MergesAnIf(cg.code, p, cg.code[p].bb)
    /\ \A p, q \in Phis(cg.code) : cg.code[p].bb = cg.code[q].bb => p = q
    /\ \A i \in 1..cgPos - 1 :
          (i <= Len(prog) /\ prog[i].k = "endif")
          => \E p \in Phis(cg.code) : p = cgBefore[i].ncode + 2 \/ p = cgBefore[i].ncode + 3

\* Both branches of an if were left in a block other than the one they
\* began in.
C21_Witness ==
    /\ pc = "exit"
    /\ exitCode = 0
    /\ \E p \in Phis(cg.code) :
          /\ cg.code[p].t1 > cg.code[p].bb
          /\ cg.code[p].t2 > cg.code[p].bb

\* The diagnostics

\* The bytes of line n of text as the lexer numbers lines, without the bytes
\* of its terminator; the text of that line, empty when there is no line n.
LineBytes(text, n) ==
    {i \in 1..Len(text) : PlaceAfter(text, i - 1).line = n /\ text[i] \notin {"\n", "\r"}}

NthLine(text, n) ==
    IF LineBytes(text, n) = {} THEN <<>>
    ELSE SubSeq(text,
                CHOOSE i \in LineBytes(text, n) : \A j \in LineBytes(text, n) : i <= j,
                CHOOSE i \in LineBytes(text, n) : \A j \in LineBytes(text, n) : j <= i)

\* C23: getLine numbers lines as the lexer does ("\n", "\r\n" and a lone
\* "\r" each end one line): getLine(source, n) is the n-th line without its
\* terminator, empty when n < 1 or n exceeds the number of lines; so the
\* line printed under a diagnostic is the source line of the reported
\* location.
C23_GetLineNumbersLikeTheLexer ==
    /\ input.pos = 0
       => \A n \in 0..(PlaceAfter(input.text, Len(input.text)).line + 1) :
             getLine(input.text, n) = NthLine(input.text, n)
    /\ (pc = "exit" /\ input.text # <<>> /\ stderr.line > 0)
       => stderr.snippet = NthLine(input.text, stderr.line)

\* The driver

EndsInK(file) == Len(file) >= 2 /\ file[Len(file) - 1] = "." /\ file[Len(file)] = "k"

\* The three argument forms, each with the input and the output it names.
ArgumentForms(args) ==
    (IF Len(args) = 1
     THEN {[inputFile |-> args[1], outputFile |-> <<"a", ".", "l", "l">>]} ELSE {})
    \cup (IF Len(args) = 3 /\ args[1] = DashO
          THEN {[inputFile |-> args[3], outputFile |-> args[2]]} ELSE {})
    \cup (IF Len(args) = 3 /\ args[2] = DashO
          THEN {[inputFile |-> args[1], outputFile |-> args[3]]} ELSE {})

Accepted(args) == {form \in ArgumentForms(args) : EndsInK(form.inputFile)}

\* C22: the driver accepts <input.k> (output a.ll), -o <output> <input.k>
\* and <input.k> -o <output> (output as named), the input ending in .k; every
\* other argument list ends with exit code 1 and no output file.
C22_ArgumentForms ==
    /\ (Accepted(argv) # {} /\ pc # "main")
       => /\ err.what \notin {<<"invalid command line arguments">>,
                              <<"input file must have the .k extension">>}
          /\ \E form \in Accepted(argv) :
                /\ options.inputFile = form.inputFile
                /\ options.outputFile = form.outputFile
    /\ (Accepted(argv) = {} /\ pc = "exit") => (exitCode = 1 /\ ~outFile)

\* The lowering failed: an exception left codegen() of item cgPos.
LoweringFailed == pc = "catch" /\ cgPos \in 1..Len(prog)

Loads(code) == {i \in 1..Len(code) : code[i].op = "load"}

\* C24: for a program the checker accepts, the lowering never fails with
\* "cannot find value" (the one ParseError codegen() throws): every variable
\* read resolves to a slot of the codegen scope stack, and a store to that
\* slot was emitted earlier.
C24_ReadsResolveInLowering ==
    /\ LoweringFailed => err.kind # "ParseError"
    /\ \A i \in Loads(cg.code) :
          /\ cg.code[i].slot \in AllocaSlots(cg.code)
          /\ \E j \in 1..(i - 1) : cg.code[j].op = "store" /\ cg.code[j].slot = cg.code[i].slot

\* The values instruction i takes that the claim is about: the value a store
\* writes, the values a PHI merges, the operands of an arithmetic or compare
\* instruction.
TypedOperands(ins) ==
    IF ins.op \in {"store", "phi", "fneg"}
             \cup {ArithInstr(o) : o \in ArithOps} \cup {CompareInstr(o) : o \in CompareOps}
    THEN {ins.args[q] : q \in 1..Len(ins.args)}
    ELSE {}

\* C25: in the code lowered from a program the checker accepted, every value
\* stored into a slot, merged by the PHI of an if, or passed to an arithmetic
\* or compare instruction has type double, and every slot is a double; this
\* includes the value of an assignment whose right-hand side is a string and
\* of a block that ends with a print or a string assignment.
C25_ValuesAreDoubles ==
    \A i \in 1..Len(cg.code) :
        /\ \A v \in TypedOperands(cg.code[i]) : v.ty = "double"
        /\ cg.code[i].op = "alloca" => cg.code[i].ty = "double"

----------------------------------------------------------------------------
(* The scope stacks                                                         *)

\* The item that ends the statement beginning at item i: item i itself, or
\* the endif / endwhile that closes it (0 when the program has none).
RECURSIVE ClosingItem(_, _)
ClosingItem(j, level) ==
    IF j > Len(prog) THEN 0
    ELSE IF prog[j].k \in {"if", "while"} THEN ClosingItem(j + 1, level + 1)
    ELSE IF prog[j].k \in {"endif", "endwhile"}
         THEN IF level = 1 THEN j ELSE ClosingItem(j + 1, level - 1)
    ELSE ClosingItem(j + 1, level)

StatementEnd(i) == IF prog[i].k \in {"if", "while"} THEN ClosingItem(i + 1, 1) ELSE i

StatementAssigns(i, name) == \E q \in i..StatementEnd(i) : ItemAssigns(prog[q], name)

\* Statement i has been checked, and lowered, to completion; typeCheck has
\* not yet left the global scope it entered for the program.
TcCompleted(i) ==
    /\ i \in 1..Len(tcBefore) /\ IsStatement(prog[i])
    /\ StatementEnd(i) # 0 /\ StatementEnd(i) < tcPos
    /\ StatementEnd(i) < Len(tcBefore) \/ pc = "check"
CgCompleted(i) ==
    /\ i \in 1..Len(cgBefore) /\ IsStatement(prog[i])
    /\ StatementEnd(i) # 0 /\ StatementEnd(i) < cgPos

\* The scope stacks after item j.
TcAfter(j) == IF j < Len(tcBefore) THEN tcBefore[j + 1] ELSE tcScopes
CgAfter(j) == IF j < Len(cgBefore) THEN cgBefore[j + 1].scopes ELSE cg.scopes

\* Scope q of both stacks binds every name the statement i does not assign
\* to in the same way.
SameBindings(before, after, q, i) ==
    \A n \in (DOMAIN before[q]) \cup (DOMAIN after[q]) :
        ~StatementAssigns(i, n) =>
            /\ n \in DOMAIN before[q] /\ n \in DOMAIN after[q]
            /\ before[q][n] = after[q][n]

Restored(before, after, i) ==
    /\ Len(after) = Len(before)
    /\ \A q \in 1..(Len(before) - 1) : SameBindings(before, after, q, i)

\* C26: after the checker has checked, or the lowering has lowered, a
\* statement to completion, the scope stack is as deep as before the
\* statement and its scopes below the top bind the names the statement does
\* not assign to as before; the stack of the lowering always has a scope.
C26_ScopesArePaired ==
    /\ \A i \in 1..Len(tcBefore) :
           TcCompleted(i) => Restored(tcBefore[i], TcAfter(StatementEnd(i)), i)
    /\ \A i \in 1..Len(cgBefore) :
           CgCompleted(i) => Restored(cgBefore[i].scopes, CgAfter(StatementEnd(i)), i)
    /\ Len(cg.scopes) >= 1
    /\ \A q \in 1..Len(cgBefore) : Len(cgBefore[q].scopes) >= 1

\* An if with both branches has been lowered: an assignment of one branch
\* shadowed a binding of the enclosing scope, which is back after the if,
\* and a print of the other branch was checked and lowered with that
\* binding below the top of both stacks.
C26_Witness ==
    \E i \in 1..Len(cgBefore) :
        /\ CgCompleted(i) /\ prog[i].k = "if"
        /\ \E q \in (i + 1)..(StatementEnd(i) - 1) :
               /\ prog[q].k = "asg"
               /\ Len(cgBefore[q + 1].scopes) = Len(cgBefore[i].scopes) + 1
               /\ BoundInTop(cgBefore[i].scopes, prog[q].name)
               /\ BoundInTop(cgBefore[q + 1].scopes, prog[q].name)
               /\ Nearest(cgBefore[q + 1].scopes, prog[q].name)
                      # Nearest(cgBefore[i].scopes, prog[q].name)
               /\ Nearest(CgAfter(StatementEnd(i)), prog[q].name)
                      = Nearest(cgBefore[i].scopes, prog[q].name)
        /\ \E p \in (i + 1)..(StatementEnd(i) - 1) :
               /\ prog[p].k = "print"
               /\ TcCompleted(p) /\ CgCompleted(p)
               /\ Len(tcBefore[p]) > 1 /\ Len(cgBefore[p].scopes) > 1
               /\ \E n \in DOMAIN tcBefore[p][1] :
                      ~StatementAssigns(p, n) /\ n \in DOMAIN cgBefore[p].scopes[1]

----------------------------------------------------------------------------
(* The locations of the nodes                                               *)

\* The token that defines a node.
Defines(tok, node) ==
    CASE node.k = "num" -> tok.type = "TOK_NUMBER" /\ tok.numValue = node.val
      [] node.k = "str" -> tok.type = "TOK_STRING" /\ tok.value = node.value
      [] node.k = "var" -> tok.type = "TOK_IDENTIFIER" /\ tok.value = node.name
      [] node.k = "un" -> tok.type = node.op
      [] node.k = "bin" -> tok.type = node.op
      [] node.k = "asg" -> tok.type = "TOK_IDENTIFIER" /\ tok.value = node.name
      [] node.k = "print" -> tok.type = "TOK_PRINT"
      [] node.k = "if" -> tok.type = "TOK_IF"
      [] node.k = "while" -> tok.type = "TOK_WHILE"

\* The node records the start of a token of the source that defines it.
AtDefiningToken(node) ==
    \E q \in 1..Len(Source.toks) :
        /\ Source.toks[q].type # "thrown"
        /\ Defines(Source.toks[q], node)
        /\ Source.toks[q].range.start = node.loc

RECURSIVE Located(_)
Located(e) ==
    /\ AtDefiningToken(e)
    /\ CASE e.k = "un" -> Located(e.operand)
         [] e.k = "bin" -> Located(e.lhs) /\ Located(e.rhs)
         [] e.k = "asg" -> Located(e.value)
         [] OTHER -> TRUE

ItemLocated(item) ==
    CASE item.k \in ExprKinds -> Located(item)
      [] item.k = "print" ->
            /\ AtDefiningToken(item) /\ Located(item.fmt)
            /\ \A q \in 1..Len(item.args) : Located(item.args[q])
      [] item.k \in {"if", "while"} -> AtDefiningToken(item) /\ Located(item.cond)
      [] OTHER -> TRUE

\* C27: every node of the program the parser built records the start of the
\* token that defines it: a literal its literal token, a variable its
\* identifier, a unary or binary node its operator, an assignment the
\* assigned identifier, print, if and while their keyword.
C27_NodesAtTheirTokens ==
    pc # "main" /\ pc # "read" => \A i \in 1..Len(prog) : ItemLocated(prog[i])

----------------------------------------------------------------------------
(* Assignments inside expressions                                           *)

\* The expressions of an item in which an assignment is not the statement.
InnerExprs(item) ==
    IF item.k \in ExprKinds \ {"asg"} THEN <<item>> ELSE ItemExprs(item)

\* The number of assignments in an expression, and the one evaluated first.
RECURSIVE CountAssignments(_)
CountAssignments(e) ==
    CASE e.k = "asg" -> 1 + CountAssignments(e.value)
      [] e.k = "un" -> CountAssignments(e.operand)
      [] e.k = "bin" -> CountAssignments(e.lhs) + CountAssignments(e.rhs)
      [] OTHER -> 0

RECURSIVE FirstAssignment(_)
FirstAssignment(e) ==
    CASE e.k = "asg" -> IF CountAssignments(e.value) > 0 THEN FirstAssignment(e.value) ELSE e
      [] e.k = "un" -> FirstAssignment(e.operand)
      [] e.k = "bin" -> IF CountAssignments(e.lhs) > 0 THEN FirstAssignment(e.lhs)
                        ELSE FirstAssignment(e.rhs)

RECURSIVE CountInner(_)
CountInner(exprs) ==
    IF exprs = <<>> THEN 0 ELSE CountAssignments(Head(exprs)) + CountInner(Tail(exprs))

RECURSIVE FirstInner(_)
FirstInner(exprs) ==
    IF CountAssignments(Head(exprs)) > 0 THEN FirstAssignment(Head(exprs))
    ELSE FirstInner(Tail(exprs))

\* The checker accepted item i, which holds exactly one assignment inside an
\* expression.
AcceptedWithInner(i) ==
    /\ i \in 1..Len(tcBefore) /\ i < tcPos
    /\ i < Len(tcBefore) \/ pc = "check"
    /\ IsStatement(prog[i])
    /\ CountInner(InnerExprs(prog[i])) = 1

\* C28: an assignment inside another expression is rejected by the parser
\* or classified by the checker like an assignment statement: an item the
\* checker accepted holds no inner assignment that the rules for assignment
\* statements reject in the scopes the item was checked in, and the name it
\* assigns to is bound after the item.
C28_InnerAssignmentsAreChecked ==
    \A i \in 1..Len(tcBefore) :
        AcceptedWithInner(i) =>
            /\ CheckAssignment(FirstInner(InnerExprs(prog[i])), tcBefore[i]).err.kind = "none"
            /\ Bound(TcAfter(i), FirstInner(InnerExprs(prog[i])).name)

----------------------------------------------------------------------------
(* The slots of immutable bindings                                          *)

\* The scope stacks of the lowering before each item and now, and the
\* symbols a stack binds.
CgStacks == {cg.scopes} \cup {cgBefore[q].scopes : q \in 1..Len(cgBefore)}
Symbols(scopes) == UNION {{scopes[l][n] : n \in DOMAIN scopes[l]} : l \in 1..Len(scopes)}

\* The slots bound so far as immutable, or as mutable.
BoundSlots(is_mutable) ==
    {b.allocaInst : b \in {c \in UNION {Symbols(s) : s \in CgStacks} :
                              c.is_mutable = is_mutable}}

StoresTo(code, slot) == {i \in 1..Len(code) : code[i].op = "store" /\ code[i].slot = slot}

\* Instruction i of the code stores to the slot allocated just before it.
StoresToNewSlot(code, i) ==
    /\ i > 1 /\ code[i].op = "store"
    /\ code[i - 1].op = "alloca" /\ code[i - 1].slot = code[i].slot

\* C29: in the code lowered so far the slot of an immutable binding is the
\* target of exactly one store, that of the assignment which allocated it;
\* a store goes to a slot that existed before only when the slot is that of
\* a mutable binding.
C29_ImmutableSlotsStoredOnce ==
    /\ \A slot \in BoundSlots(FALSE) :
           /\ Cardinality(StoresTo(cg.code, slot)) = 1
           /\ \A i \in StoresTo(cg.code, slot) : StoresToNewSlot(cg.code, i)
    /\ \A i \in 1..Len(cg.code) :
           cg.code[i].op = "store" =>
               StoresToNewSlot(cg.code, i) \/ cg.code[i].slot \in BoundSlots(TRUE)

\* A program has been lowered in which an assignment in a block shadowed an
\* immutable binding of the enclosing scope: two slots, one store each.
C29_Witness ==
    /\ pc = "exit" /\ exitCode = 0
    /\ \E i \in 1..Len(cgBefore), j \in 1..Len(cgBefore) :
           /\ i < j /\ prog[i].k = "asg" /\ prog[j].k = "asg" /\ ~prog[j].is_mut
           /\ prog[i].name = prog[j].name
           /\ Len(cgBefore[j].scopes) > Len(cgBefore[i].scopes)
           /\ Cardinality(BoundSlots(FALSE)) >= 2

----------------------------------------------------------------------------
(* Termination of the parser                                                *)

\* Every call of getNextToken on the lexer L and on the lexers after it
\* throws, returns TOK_EOF or moves the position forward.
RECURSIVE Consumes(_)
ConsumedBy(L, r) ==
    \/ r.err.kind # "none"
    \/ r.token.type = "TOK_EOF"
    \/ r.lexer.pos > L.pos /\ r.lexer.pos <= Len(L.input) /\ Consumes(r.lexer)

Consumes(L) == ConsumedBy(L, getNextToken(L))

\* A step of the parser: Parser::Parser reads the first token of a lexer
\* whose calls all consume input; a step that leaves the parser in
\* parseProgram has consumed a token, and the current token is one of the
\* finitely many tokens of the source.
ParserStep ==
    pc = "parse" =>
        /\ input.pos = 0 => Consumes(Lexer(input.text, Text(options.inputFile)))
        /\ pc' = "parse" =>
               /\ input'.pos > input.pos
               /\ input'.pos <= Len(Source.toks)
        /\ pc' \in {"parse", "check", "catch"}
        /\ pc' = "check" => CurrentToken.type = "TOK_EOF" /\ open = <<>>
        /\ pc' = "catch" => err'.kind # "none"

\* C30: on every source text parseProgram ends, with a program or with an
\* error: each call of getNextToken returns TOK_EOF, throws or consumes at
\* least one byte, and each iteration of the statement loops of parseProgram
\* and parseBlock consumes at least one token or throws.
C30_ParseProgramTerminates == [][ParserStep]_vars

\* parseProgram has returned the program of the text with nested blocks,
\* all of whose tokens the loops of parseProgram and parseBlock consumed.
C30_Witness ==
    /\ pc = "check" /\ tcPos = 1
    /\ input.text = NestedBranches
    /\ input.pos = Len(Source.toks)
    /\ Len(prog) = 11

============================================================================
